---------------------------- MODULE Spec2Model ----------------------------
(***************************************************************************)
(* A1CE course recommender: eligibility filter, fit scoring, set optimizer *)
(* and quality evaluator, modelled from the Go sources.                    *)
(*                                                                         *)
(* float64 values are modelled as exact rationals [n, d] (d > 0, reduced). *)
(* A float64 division by zero is modelled by the values NaN, PosInf and    *)
(* NegInf, with the comparison rules of IEEE-754 (every comparison with    *)
(* NaN is false).                                                          *)
(***************************************************************************)
EXTENDS Integers, Sequences, FiniteSets, TLC

VARIABLES
    pc,               \* position of the request / of the function under check
    profile,          \* StudentProfile
    requirements,     \* CurriculumRequirements
    scoredCourses,    \* ranked candidates handed to OptimizeCourseSet
    maxCreditLoad,    \* req.MaxCreditLoad
    selectedCourses,  \* result of OptimizeCourseSet
    algorithm,        \* which OptimizeCourseSet snapshot produced selectedCourses
    metrics,          \* EvaluationMetrics of the selection
    cards,            \* competency cards GetStudentProfile has consumed so far
    checkedCourse,    \* the course handed to the function under check
    checked,          \* profile and result of the last CheckPrerequisites call
    catalog,          \* catalog.Courses
    constraints,      \* req.Constraints (NoConstraints stands for nil)
    idMap,            \* identity map loaded from course_identities.json
    semesterCards,    \* outcome of GetSemesterCompetencies, per semester
    semester,         \* req.Semester
    candidates,       \* the courses that survive the filter stage
    handler,          \* which handler snapshot filtered the catalog
    scores,           \* sub-scores and fit score of the course under check
    scored,           \* scored candidates in catalog order, before the sort
    upstream,         \* what the A1CE API answers to each request of the client
    response,         \* what GenerateRecommendations returned: (result, err)
    stages,           \* steps of GenerateRecommendations that have run, in order
    tasks,            \* per-semester goroutines of fetchAllCompletedIdentityCodes
    mutex,            \* mu: the goroutines that hold it
    wg,               \* the WaitGroup counter
    completed,        \* the shared map of completed markers (its key set)
    request,          \* the RecommendationRequest as decoded from the body
    offline           \* offline evaluation of one student: truth, rec, correct, acc

optimizerVars == <<scoredCourses, maxCreditLoad, selectedCourses, algorithm, metrics>>
prereqVars    == <<cards, checked>>
filterVars    == <<catalog, constraints, idMap, semesterCards, semester,
                   candidates, handler>>

serviceVars   == <<upstream, response, stages>>
aggregateVars == <<tasks, mutex, wg, completed>>
handlerVars   == <<request>>
offlineVars   == <<offline>>
moreVars      == <<aggregateVars, handlerVars, offlineVars>>
laterVars     == <<scored, serviceVars, moreVars>>

vars == <<pc, profile, requirements, scoredCourses, maxCreditLoad,
          selectedCourses, algorithm, metrics, cards, checkedCourse, checked,
          catalog, constraints, idMap, semesterCards, semester, candidates,
          handler, scores, laterVars>>

-----------------------------------------------------------------------------
(* Exact rational arithmetic standing for float64.                         *)

Abs(x) == IF x < 0 THEN -x ELSE x

RECURSIVE GCD(_, _)
GCD(a, b) == IF b = 0 THEN a ELSE GCD(b, a % b)

Rat(n, d) ==
    LET s == IF d < 0 THEN -1 ELSE 1
        g == GCD(Abs(n), Abs(d))
    IN  [n |-> (s * n) \div g, d |-> (s * d) \div g]

R(k) == [n |-> k, d |-> 1]

NaN    == [n |-> 0, d |-> 0]
PosInf == [n |-> 1, d |-> 0]
NegInf == [n |-> -1, d |-> 0]

IsNaN(x)    == x.d = 0 /\ x.n = 0
IsFinite(x) == x.d # 0

\* x + y, x - y, x * y, x / y with the IEEE-754 special cases.
Neg(x) == [n |-> -x.n, d |-> x.d]

Add(x, y) ==
    IF IsFinite(x) /\ IsFinite(y) THEN Rat(x.n * y.d + y.n * x.d, x.d * y.d)
    ELSE IF IsNaN(x) \/ IsNaN(y) THEN NaN
    ELSE IF ~IsFinite(x) /\ ~IsFinite(y) THEN (IF x.n = y.n THEN x ELSE NaN)
    ELSE IF ~IsFinite(x) THEN x ELSE y

Sub(x, y) == Add(x, Neg(y))

Sign(x) == IF x.n > 0 THEN 1 ELSE IF x.n < 0 THEN -1 ELSE 0

Mul(x, y) ==
    IF IsFinite(x) /\ IsFinite(y) THEN Rat(x.n * y.n, x.d * y.d)
    ELSE IF IsNaN(x) \/ IsNaN(y) THEN NaN
    ELSE IF Sign(x) * Sign(y) = 0 THEN NaN
    ELSE IF Sign(x) * Sign(y) > 0 THEN PosInf ELSE NegInf

Div(x, y) ==
    IF IsNaN(x) \/ IsNaN(y) THEN NaN
    ELSE IF IsFinite(x) /\ IsFinite(y) THEN
        IF y.n # 0 THEN Rat(x.n * y.d, x.d * y.n)
        ELSE IF x.n = 0 THEN NaN
        ELSE IF x.n > 0 THEN PosInf ELSE NegInf
    ELSE IF ~IsFinite(x) /\ ~IsFinite(y) THEN NaN
    ELSE IF ~IsFinite(x) THEN
        (IF Sign(x) * (IF y.n < 0 THEN -1 ELSE 1) > 0 THEN PosInf ELSE NegInf)
    ELSE R(0)

\* x < y, x <= y: false as soon as one side is NaN.
Lt(x, y) ==
    /\ ~IsNaN(x) /\ ~IsNaN(y)
    /\ IF IsFinite(x) /\ IsFinite(y) THEN x.n * y.d < y.n * x.d
       ELSE IF ~IsFinite(x) /\ ~IsFinite(y) THEN x.n < y.n
       ELSE IF ~IsFinite(x) THEN x.n < 0 ELSE y.n > 0

Leq(x, y) == ~IsNaN(x) /\ ~IsNaN(y) /\ (x = y \/ Lt(x, y))
Gt(x, y)  == Lt(y, x)
Geq(x, y) == Leq(y, x)

\* math.Min and math.Max: NaN if either argument is NaN.
MathMin(x, y) == IF IsNaN(x) \/ IsNaN(y) THEN NaN ELSE IF Lt(y, x) THEN y ELSE x
MathMax(x, y) == IF IsNaN(x) \/ IsNaN(y) THEN NaN ELSE IF Lt(x, y) THEN y ELSE x

InUnit(x) == Leq(R(0), x) /\ Leq(x, R(1))

-----------------------------------------------------------------------------
(* Slice helpers of recommender.go / service.go.                           *)

Range(s) == {s[i] : i \in 1..Len(s)}

\* contains(slice, item)
contains(slice, item) == \E i \in 1..Len(slice) : slice[i] = item

\* intersection(a, b): the items of b that occur in a, in b's order and with
\* b's multiplicity.
intersection(a, b) == SelectSeq(b, LAMBDA item : item \in Range(a))

\* difference(a, b): the items of a that do not occur in b, in a's order and
\* with a's multiplicity.
difference(a, b) == SelectSeq(a, LAMBDA item : item \notin Range(b))

\* unique(slice): first occurrences, in order.
RECURSIVE unique(_)
unique(slice) ==
    IF slice = <<>> THEN <<>>
    ELSE LET front == unique(SubSeq(slice, 1, Len(slice) - 1))
             last  == slice[Len(slice)]
         IN  IF last \in Range(front) THEN front ELSE Append(front, last)

\* getMapKeys(m): the keys of a map, in some order (Go's map iteration order
\* is unspecified; every use below depends on the keys as a set only).
RECURSIVE SetToSeq(_)
SetToSeq(S) ==
    IF S = {} THEN <<>>
    ELSE LET x == CHOOSE y \in S : TRUE IN <<x>> \o SetToSeq(S \ {x})

getMapKeys(m) == SetToSeq(DOMAIN m)

\* mean(values): 0 for an empty slice.
RECURSIVE SumRat(_)
SumRat(values) ==
    IF values = <<>> THEN R(0)
    ELSE Add(SumRat(SubSeq(values, 1, Len(values) - 1)), values[Len(values)])

mean(values) ==
    IF Len(values) = 0 THEN R(0) ELSE Div(SumRat(values), R(Len(values)))

\* containsRecommendedCourse(courses, course): same CourseID already selected.
containsRecommendedCourse(courses, course) ==
    \E i \in 1..Len(courses) : courses[i].Course.CourseID = course.Course.CourseID

\* sum of the credit hours of a selection (calculateTotalCredits).
RECURSIVE calculateTotalCredits(_)
calculateTotalCredits(courses) ==
    IF courses = <<>> THEN 0
    ELSE calculateTotalCredits(SubSeq(courses, 1, Len(courses) - 1))
         + courses[Len(courses)].Course.CreditHours

-----------------------------------------------------------------------------
(* Go maps: a function on the keys present; a missing key reads as 0.      *)

EmptyMap == [k \in {} |-> 0]

Get(m, k) == IF k \in DOMAIN m THEN m[k] ELSE 0

\* m[k] += v
AddTo(m, k, v) == [x \in DOMAIN m \cup {k} |-> IF x = k THEN Get(m, k) + v ELSE m[x]]

-----------------------------------------------------------------------------
(* OptimizeCourseSet, snapshot "credit cap only"                           *)
(* (A1CE_recommender/optimizer_evaluater.go).                              *)

AbsoluteMax == 60
RelaxedMaxPerSubdomain == 10
FullEnoughSlack == 2

Min(a, b) == IF a < b THEN a ELSE b
Max(a, b) == IF a < b THEN b ELSE a

\* Append courseRec to the running selection.
Select(st, courseRec) ==
    [st EXCEPT !.selectedCourses = Append(@, courseRec),
               !.totalCredits = @ + courseRec.Course.CreditHours,
               !.subdomainCount = AddTo(@, courseRec.Course.SubdomainID, 1)]

RECURSIVE CreditCapLoop(_, _, _, _)
CreditCapLoop(courses, i, st, targetCredits) ==
    IF i > Len(courses) THEN st
    ELSE LET courseRec == courses[i]
             course    == courseRec.Course
         IN  IF st.totalCredits + course.CreditHours > targetCredits
                 THEN CreditCapLoop(courses, i + 1, st, targetCredits)
             ELSE IF Get(st.subdomainCount, course.SubdomainID) >= RelaxedMaxPerSubdomain
                 THEN CreditCapLoop(courses, i + 1, st, targetCredits)
             ELSE LET st2 == Select(st, courseRec)
                  IN  IF st2.totalCredits >= targetCredits - FullEnoughSlack
                          THEN st2
                          ELSE CreditCapLoop(courses, i + 1, st2, targetCredits)

EmptySelection ==
    [selectedCourses |-> <<>>, totalCredits |-> 0, subdomainCount |-> EmptyMap]

OptimizeCourseSet_CreditCap(courses, studentProfile, reqs, maxLoad) ==
    CreditCapLoop(courses, 1, EmptySelection, Min(maxLoad, AbsoluteMax)).selectedCourses

-----------------------------------------------------------------------------
(* OptimizeCourseSet, snapshot "priority plus fill" (unnamed/part_001).    *)

TargetPriorityCount == 3

\* isGraduationRequirement(c): the course's code, its id or a competency it
\* teaches is an entry of requirements.RequiredCompetencies.
isGraduationRequirement(c, reqs) ==
    LET graduationReqMap == Range(reqs.RequiredCompetencies)
    IN  \/ c.CourseCode \in graduationReqMap
        \/ c.CourseID \in graduationReqMap
        \/ \E k \in 1..Len(c.TeachesCompetencies) :
               c.TeachesCompetencies[k] \in graduationReqMap

\* Phase 1: priority pass. st.priorityCount counts the picks.
RECURSIVE PriorityPass(_, _, _, _, _)
PriorityPass(courses, i, st, reqs, targetCredits) ==
    IF i > Len(courses) \/ st.priorityCount >= TargetPriorityCount THEN st
    ELSE LET courseRec == courses[i]
             course    == courseRec.Course
         IN  IF ~isGraduationRequirement(course, reqs)
                 THEN PriorityPass(courses, i + 1, st, reqs, targetCredits)
             ELSE IF st.totalCredits + course.CreditHours > targetCredits
                 THEN PriorityPass(courses, i + 1, st, reqs, targetCredits)
             ELSE IF containsRecommendedCourse(st.selectedCourses, courseRec)
                 THEN PriorityPass(courses, i + 1, st, reqs, targetCredits)
             ELSE PriorityPass(courses, i + 1,
                               [Select(st, courseRec) EXCEPT !.priorityCount = @ + 1],
                               reqs, targetCredits)

\* Phase 2: fill the rest.
RECURSIVE FillPass(_, _, _, _)
FillPass(courses, i, st, targetCredits) ==
    IF i > Len(courses) THEN st
    ELSE LET courseRec == courses[i]
             course    == courseRec.Course
         IN  IF containsRecommendedCourse(st.selectedCourses, courseRec)
                 THEN FillPass(courses, i + 1, st, targetCredits)
             ELSE IF st.totalCredits + course.CreditHours > targetCredits
                 THEN FillPass(courses, i + 1, st, targetCredits)
             ELSE IF Get(st.subdomainCount, course.SubdomainID) >= RelaxedMaxPerSubdomain
                 THEN FillPass(courses, i + 1, st, targetCredits)
             ELSE LET st2 == Select(st, courseRec)
                  IN  IF st2.totalCredits >= targetCredits
                          THEN st2
                          ELSE FillPass(courses, i + 1, st2, targetCredits)

\* Mutant of PriorityPicks: the priority pass does not look at the target
\* credit load.
PriorityPicks_NoTarget(courses, reqs, maxLoad) ==
    PriorityPass(courses, 1,
                 [selectedCourses |-> <<>>, totalCredits |-> 0,
                  subdomainCount |-> EmptyMap, priorityCount |-> 0],
                 reqs, 1000)

PriorityPicks(courses, reqs, maxLoad) ==
    PriorityPass(courses, 1,
                 [selectedCourses |-> <<>>, totalCredits |-> 0,
                  subdomainCount |-> EmptyMap, priorityCount |-> 0],
                 reqs, maxLoad)

\* Mutant of OptimizeCourseSet_Priority: the priority pass is skipped, the
\* selection is made by the fill pass alone, in rank order.
OptimizeCourseSet_FillOnly(courses, studentProfile, reqs, maxLoad) ==
    FillPass(courses, 1,
             [selectedCourses |-> <<>>, totalCredits |-> 0,
              subdomainCount |-> EmptyMap, priorityCount |-> 0],
             maxLoad).selectedCourses

\* Mutant of OptimizeCourseSet_Priority: one pass that stops as soon as the
\* total is within FullEnoughSlack of the target.
OptimizeCourseSet_FullEnough(courses, studentProfile, reqs, maxLoad) ==
    CreditCapLoop(courses, 1, EmptySelection, maxLoad).selectedCourses

OptimizeCourseSet_Priority(courses, studentProfile, reqs, maxLoad) ==
    FillPass(courses, 1, PriorityPicks(courses, reqs, maxLoad), maxLoad).selectedCourses

-----------------------------------------------------------------------------
(* OptimizeCourseSet, snapshot "marginal value with threshold"             *)
(* (unnamed/part_002).                                                     *)

MinCredits == 36
TargetCeiling == 60
MaxPerSubdomain == 3

\* distributionCoverage starts as a copy of the earned distribution credits.
EarnedCredits(studentProfile) ==
    [k \in DOMAIN studentProfile.DistributionCredits |->
        studentProfile.DistributionCredits[k].Earned]

\* Marginal value of adding courseRec, given what the selection covers so far.
MarginalValue(courseRec, st, reqs) ==
    LET course       == courseRec.Course
        subdomain    == course.SubdomainID
        newComps     == difference(course.TeachesCompetencies, st.coveredCompetencies)
        newCompValue == R(Len(newComps))
        requiredInSubdomain == Get(reqs.DistributionRequirements, subdomain)
        currentInSubdomain  == Get(st.distributionCoverage, subdomain)
        gapInSubdomain      == Max(0, requiredInSubdomain - currentInSubdomain)
        distributionValue ==
            IF gapInSubdomain > 0
                THEN MathMin(R(1), Div(R(course.CreditHours), R(gapInSubdomain)))
                ELSE Rat(2, 10)
    IN  Add(Add(Mul(Rat(3, 10), Div(newCompValue, R(5))),
                Mul(Rat(3, 10), distributionValue)),
            Mul(Rat(4, 10), courseRec.FitScore))

\* 0.5 * (1 - totalCredits/targetCredits); NaN when both are 0.
AcceptanceThreshold(totalCredits, targetCredits) ==
    Mul(Rat(1, 2), Sub(R(1), Div(R(totalCredits), R(targetCredits))))

\* Mutant of Accept: the count of the course's subdomain is not incremented.
Accept_NoCount(st, courseRec) ==
    [st EXCEPT !.selectedCourses = Append(@, courseRec),
               !.totalCredits = @ + courseRec.Course.CreditHours,
               !.coveredCompetencies = @ \o courseRec.Course.TeachesCompetencies,
               !.distributionCoverage =
                   AddTo(@, courseRec.Course.SubdomainID, courseRec.Course.CreditHours)]

Accept(st, courseRec) ==
    [st EXCEPT !.selectedCourses = Append(@, courseRec),
               !.totalCredits = @ + courseRec.Course.CreditHours,
               !.coveredCompetencies = @ \o courseRec.Course.TeachesCompetencies,
               !.distributionCoverage =
                   AddTo(@, courseRec.Course.SubdomainID, courseRec.Course.CreditHours),
               !.subdomainCount = AddTo(@, courseRec.Course.SubdomainID, 1)]

RECURSIVE MarginalLoop(_, _, _, _, _, _)
MarginalLoop(courses, i, st, reqs, targetCredits, maxLoad) ==
    IF i > Len(courses) THEN st
    ELSE LET courseRec == courses[i]
             course    == courseRec.Course
             over      == st.totalCredits + course.CreditHours > targetCredits
         IN  IF over /\ st.totalCredits >= MinCredits
                 THEN MarginalLoop(courses, i + 1, st, reqs, targetCredits, maxLoad)
             ELSE IF over /\ st.totalCredits + course.CreditHours > maxLoad
                 THEN MarginalLoop(courses, i + 1, st, reqs, targetCredits, maxLoad)
             ELSE IF Get(st.subdomainCount, course.SubdomainID) >= MaxPerSubdomain
                 THEN MarginalLoop(courses, i + 1, st, reqs, targetCredits, maxLoad)
             ELSE IF Geq(MarginalValue(courseRec, st, reqs),
                         AcceptanceThreshold(st.totalCredits, targetCredits))
                 THEN LET st2 == Accept(st, courseRec)
                      IN  IF st2.totalCredits >= targetCredits
                              THEN st2
                              ELSE MarginalLoop(courses, i + 1, st2, reqs,
                                                targetCredits, maxLoad)
             ELSE MarginalLoop(courses, i + 1, st, reqs, targetCredits, maxLoad)

\* Mutant of FloorFallback: the fallback adds candidates without comparing the
\* new total with maxLoad.
RECURSIVE FloorFallback_NoCeiling(_, _, _, _)
FloorFallback_NoCeiling(courses, i, st, maxLoad) ==
    IF i > Len(courses) THEN st
    ELSE LET courseRec == courses[i]
             course    == courseRec.Course
         IN  IF containsRecommendedCourse(st.selectedCourses, courseRec)
                 THEN FloorFallback_NoCeiling(courses, i + 1, st, maxLoad)
             ELSE LET st2 == [st EXCEPT
                                !.selectedCourses = Append(@, courseRec),
                                !.totalCredits = @ + course.CreditHours]
                  IN  IF st2.totalCredits >= MinCredits
                          THEN st2
                          ELSE FloorFallback_NoCeiling(courses, i + 1, st2, maxLoad)

\* Credit-floor fallback: add unselected candidates in rank order while the
\* total stays within maxLoad, until MinCredits is reached.
RECURSIVE FloorFallback(_, _, _, _)
FloorFallback(courses, i, st, maxLoad) ==
    IF i > Len(courses) THEN st
    ELSE LET courseRec == courses[i]
             course    == courseRec.Course
         IN  IF containsRecommendedCourse(st.selectedCourses, courseRec)
                 THEN FloorFallback(courses, i + 1, st, maxLoad)
             ELSE IF st.totalCredits + course.CreditHours <= maxLoad
                 THEN LET st2 == [st EXCEPT
                                    !.selectedCourses = Append(@, courseRec),
                                    !.totalCredits = @ + course.CreditHours]
                      IN  IF st2.totalCredits >= MinCredits
                              THEN st2
                              ELSE FloorFallback(courses, i + 1, st2, maxLoad)
             ELSE FloorFallback(courses, i + 1, st, maxLoad)

MarginalFill(courses, studentProfile, reqs, maxLoad) ==
    MarginalLoop(courses, 1,
                 [selectedCourses |-> <<>>, totalCredits |-> 0,
                  coveredCompetencies |-> getMapKeys(studentProfile.Competencies),
                  distributionCoverage |-> EarnedCredits(studentProfile),
                  subdomainCount |-> EmptyMap],
                 reqs, Min(maxLoad, TargetCeiling), maxLoad)

OptimizeCourseSet_Marginal(courses, studentProfile, reqs, maxLoad) ==
    LET filled == MarginalFill(courses, studentProfile, reqs, maxLoad)
    IN  IF filled.totalCredits < MinCredits
            THEN FloorFallback(courses, 1, filled, maxLoad).selectedCourses
            ELSE filled.selectedCourses

-----------------------------------------------------------------------------
(* CheckPrerequisites (recommender.go).                                    *)

\* First loop: a prerequisite course id missing from CompletedCourses
\* returns false.  Second loop: a required competency the student lacks, or
\* holds with a grade below the minimum, returns false.
\* Variant: a required competency the student does not hold is let through.
CheckPrerequisites_AbsentOk(course, prof) ==
    IF \E i \in 1..Len(course.Prerequisites) :
           ~contains(prof.CompletedCourses, course.Prerequisites[i])
        THEN FALSE
    ELSE IF \E comp \in DOMAIN course.RequiredCompetencies :
           LET hasComp == comp \in DOMAIN prof.Competencies
           IN  hasComp /\ prof.Competencies[comp] < course.RequiredCompetencies[comp]
        THEN FALSE
    ELSE TRUE

\* Variant: the grade comparison is reversed.
CheckPrerequisites_GradeAbove(course, prof) ==
    IF \E i \in 1..Len(course.Prerequisites) :
           ~contains(prof.CompletedCourses, course.Prerequisites[i])
        THEN FALSE
    ELSE IF \E comp \in DOMAIN course.RequiredCompetencies :
           LET hasComp == comp \in DOMAIN prof.Competencies
           IN  ~hasComp \/ prof.Competencies[comp] > course.RequiredCompetencies[comp]
        THEN FALSE
    ELSE TRUE

CheckPrerequisites(course, prof) ==
    IF \E i \in 1..Len(course.Prerequisites) :
           ~contains(prof.CompletedCourses, course.Prerequisites[i])
        THEN FALSE
    ELSE IF \E comp \in DOMAIN course.RequiredCompetencies :
           LET hasComp == comp \in DOMAIN prof.Competencies
           IN  ~hasComp \/ prof.Competencies[comp] < course.RequiredCompetencies[comp]
        THEN FALSE
    ELSE TRUE

-----------------------------------------------------------------------------
(* Quality evaluator (optimizer_evaluater.go).                             *)

\* The competencies taught by the selection, concatenated in selection order.
RECURSIVE TaughtBy(_)
TaughtBy(recommendedSet) ==
    IF recommendedSet = <<>> THEN <<>>
    ELSE TaughtBy(SubSeq(recommendedSet, 1, Len(recommendedSet) - 1))
         \o recommendedSet[Len(recommendedSet)].Course.TeachesCompetencies

MissingRequired(studentProfile, reqs) ==
    difference(reqs.RequiredCompetencies, getMapKeys(studentProfile.Competencies))

\* Mutant of CalculateSkillCoverage: no early return when nothing is missing.
CalculateSkillCoverage_NoGuard(recommendedSet, studentProfile, reqs) ==
    LET missingComps == MissingRequired(studentProfile, reqs)
        addressedGaps == intersection(missingComps, TaughtBy(recommendedSet))
    IN  Div(R(Len(addressedGaps)), R(Len(missingComps)))

CalculateSkillCoverage(recommendedSet, studentProfile, reqs) ==
    LET missingComps == MissingRequired(studentProfile, reqs)
        coveredByRecommendations == TaughtBy(recommendedSet)
        addressedGaps == intersection(missingComps, coveredByRecommendations)
    IN  IF Len(missingComps) = 0 THEN R(1)
        ELSE Div(R(Len(addressedGaps)), R(Len(missingComps)))

CalculatePrerequisiteCompliance(recommendedSet, studentProfile) ==
    LET compliantCourses ==
            Len(SelectSeq(recommendedSet,
                          LAMBDA courseRec : CheckPrerequisites(courseRec.Course, studentProfile)))
    IN  IF Len(recommendedSet) = 0 THEN R(1)
        ELSE Div(R(compliantCourses), R(Len(recommendedSet)))

\* covered = append(covered, intersection(taught, missingRequired)...) per course
RECURSIVE CoveredMissing(_, _)
CoveredMissing(recommendedSet, missingRequired) ==
    IF recommendedSet = <<>> THEN <<>>
    ELSE CoveredMissing(SubSeq(recommendedSet, 1, Len(recommendedSet) - 1), missingRequired)
         \o intersection(recommendedSet[Len(recommendedSet)].Course.TeachesCompetencies,
                         missingRequired)

\* calculateDistributionCoverage (service.go) and the same loop inside
\* CalculateProgramProgressFit: subdomain -> summed credit hours.
RECURSIVE calculateDistributionCoverage(_)
calculateDistributionCoverage(courses) ==
    IF courses = <<>> THEN EmptyMap
    ELSE AddTo(calculateDistributionCoverage(SubSeq(courses, 1, Len(courses) - 1)),
               courses[Len(courses)].Course.SubdomainID,
               courses[Len(courses)].Course.CreditHours)

CompetencyProgress(recommendedSet, studentProfile, reqs) ==
    LET missingRequired == MissingRequired(studentProfile, reqs)
        covered == unique(CoveredMissing(recommendedSet, missingRequired))
    IN  IF Len(missingRequired) > 0
            THEN Div(R(Len(covered)), R(Len(missingRequired)))
            ELSE R(1)

AreaProgress(subdomain, recommendedSet, studentProfile, reqs) ==
    LET requiredCredits == reqs.DistributionRequirements[subdomain]
        currentCredits ==
            IF subdomain \in DOMAIN studentProfile.DistributionCredits
                THEN studentProfile.DistributionCredits[subdomain].Earned ELSE 0
        recommendedCredits == Get(calculateDistributionCoverage(recommendedSet), subdomain)
        remainingGap == Max(0, requiredCredits - currentCredits)
    IN  IF remainingGap > 0
            THEN MathMin(R(1), Div(R(recommendedCredits), R(remainingGap)))
            ELSE R(1)

DistributionProgress(recommendedSet, studentProfile, reqs) ==
    LET subdomains == SetToSeq(DOMAIN reqs.DistributionRequirements)
        distributionProgressScores ==
            [i \in 1..Len(subdomains) |->
                AreaProgress(subdomains[i], recommendedSet, studentProfile, reqs)]
    IN  IF Len(distributionProgressScores) > 0
            THEN mean(distributionProgressScores)
            ELSE R(1)

CalculateProgramProgressFit(recommendedSet, studentProfile, reqs) ==
    Add(Mul(Rat(6, 10), CompetencyProgress(recommendedSet, studentProfile, reqs)),
        Mul(Rat(4, 10), DistributionProgress(recommendedSet, studentProfile, reqs)))

EvaluateRecommendationSet(recommendedSet, studentProfile, reqs) ==
    LET skillCoverage == CalculateSkillCoverage(recommendedSet, studentProfile, reqs)
        prereqCompliance == CalculatePrerequisiteCompliance(recommendedSet, studentProfile)
        programProgressFit == CalculateProgramProgressFit(recommendedSet, studentProfile, reqs)
    IN  [GoodnessScore |->
             Add(Add(Mul(Rat(3, 10), skillCoverage), Mul(Rat(3, 10), prereqCompliance)),
                 Mul(Rat(4, 10), programProgressFit)),
         SkillCoveragePercentage |-> skillCoverage,
         PrerequisiteCompliance |-> prereqCompliance,
         ProgramProgressFit |-> programProgressFit]

-----------------------------------------------------------------------------
(* Specification SpecOptimizer: steps 7 and 8 of GenerateRecommendations.  *)
(* A ranked candidate list and a credit ceiling are drawn, one of the      *)
(* three OptimizeCourseSet snapshots selects from it, and the selection is *)
(* evaluated.                                                              *)

MaxCandidates == 3

CourseIds   == <<"C1", "C2", "C3", "C4", "C5", "C6">>
CourseCodes == <<"K1", "K2", "K3", "K4", "K5", "K6">>

CreditChoices     == {0, 30, 40}
TeachesChoices    == {<<>>, <<"B">>}
FitChoices        == {R(1), Rat(1, 5)}
LoadChoices       == {-5, 0, 30, 70}
RequiredChoices   == {<<>>, <<"A">>, <<"B">>, <<"B", "K2">>}
\* Subdomain of the candidate at each rank: one area throughout, or an area
\* with a distribution requirement alternating with an elective area.
SubdomainPatterns == {<<"AI", "AI", "AI", "AI", "AI", "AI">>,
                      <<"AI", "Art", "AI", "Art", "AI", "Art">>}

NoMetrics == [GoodnessScore |-> R(0), SkillCoveragePercentage |-> R(0),
              PrerequisiteCompliance |-> R(0), ProgramProgressFit |-> R(0)]

\* The candidate at rank i.
Candidate(i, credits, subdomain, teaches, fit) ==
    [Course |-> [CourseID |-> CourseIds[i], CourseCode |-> CourseCodes[i],
                 CreditHours |-> credits, SubdomainID |-> subdomain,
                 RequiredCompetencies |-> EmptyMap,
                 TeachesCompetencies |-> teaches,
                 Prerequisites |-> <<>>],
     FitScore |-> fit]

CandidatesAt(i, pattern) ==
    {Candidate(i, c, pattern[i], t, f) :
        c \in CreditChoices, t \in TeachesChoices, f \in FitChoices}

\* Ranked lists: sorted by FitScore, highest first (service.go:148).
IsRanked(courses) ==
    \A i \in 1..(Len(courses) - 1) : Geq(courses[i].FitScore, courses[i + 1].FitScore)

RECURSIVE RankedListsOfLen(_, _)
RankedListsOfLen(n, pattern) ==
    IF n = 0 THEN {<<>>}
    ELSE {l \in {Append(front, c) : front \in RankedListsOfLen(n - 1, pattern),
                                    c \in CandidatesAt(n, pattern)} : IsRanked(l)}

RankedLists ==
    UNION {RankedListsOfLen(n, pattern) : n \in 0..MaxCandidates, pattern \in SubdomainPatterns}

OptimizerProfile ==
    [Competencies |-> [k \in {"A"} |-> 3],
     CompletedCourses |-> <<>>,
     DistributionCredits |->
         [k \in {"AI"} |-> [Earned |-> 6, Required |-> 36, Working |-> 0]],
     RequiredCompetencies |-> <<>>]

OptimizerRequirements(required) ==
    [RequiredCompetencies |-> required,
     DistributionRequirements |-> [k \in {"AI"} |-> 36],
     TotalCreditsRequired |-> 120]

\* Values of the variables a specification does not use.
NoCheck == [called |-> FALSE, profile |-> OptimizerProfile, result |-> FALSE]

NoConstraints == [isNil |-> TRUE, ExcludeCourses |-> <<>>]

NoCourse ==
    [CourseID |-> "", CourseCode |-> "", CreditHours |-> 0, SubdomainID |-> "",
     RequiredCompetencies |-> EmptyMap, TeachesCompetencies |-> <<>>,
     Prerequisites |-> <<>>]

NoScores ==
    [CompetencyMatchScore |-> R(0), InterestAlignmentScore |-> R(0),
     ProgramProgressScore |-> R(0), FitScore |-> R(0)]

IdleOptimizer ==
    /\ scoredCourses = <<>> /\ maxCreditLoad = 0 /\ selectedCourses = <<>>
    /\ algorithm = "none" /\ metrics = NoMetrics

IdlePrereq == cards = <<>> /\ checked = NoCheck

IdleFilter ==
    /\ catalog = <<>> /\ constraints = NoConstraints /\ idMap = EmptyMap
    /\ semesterCards = EmptyMap /\ semester = <<>> /\ candidates = <<>>
    /\ handler = "none"

IdleScoring == checkedCourse = NoCourse /\ scores = NoScores

NoUpstream ==
    [identityErr |-> FALSE, cardsErr |-> FALSE, graduationErr |-> FALSE,
     subdomainsErr |-> FALSE, cards |-> <<>>, required |-> <<>>, earned |-> 0,
     subdomains |-> EmptyMap]

\* A nil *RecommendationSet, and the nil error "".
NoResult ==
    [isNil |-> TRUE, RecommendedSet |-> <<>>, TotalCredits |-> 0, Metrics |-> NoMetrics,
     DistributionCoverage |-> EmptyMap, Status |-> ""]

NoResponse == [result |-> NoResult, err |-> ""]

IdleService == upstream = NoUpstream /\ response = NoResponse /\ stages = <<>>

IdleAggregate == tasks = EmptyMap /\ mutex = {} /\ wg = 0 /\ completed = {}

NoRequest == [StudentID |-> "", Semester |-> "", MaxCreditLoad |-> 0]

IdleHandler == request = NoRequest

NoOffline == [truth |-> <<>>, rec |-> <<>>, correct |-> 0, acc |-> R(0)]

IdleOffline == offline = NoOffline

IdleMore == IdleAggregate /\ IdleHandler /\ IdleOffline

IdleLater ==
    /\ scored = <<>>
    /\ IdleService
    /\ IdleMore

InitOptimizer ==
    /\ pc = "ranked"
    /\ scoredCourses \in RankedLists
    /\ maxCreditLoad \in LoadChoices
    /\ \E required \in RequiredChoices :
          /\ requirements = OptimizerRequirements(required)
          /\ profile = [OptimizerProfile EXCEPT !.RequiredCompetencies = required]
    /\ selectedCourses = <<>>
    /\ algorithm = "none"
    /\ metrics = NoMetrics
    /\ IdlePrereq /\ IdleFilter /\ IdleScoring /\ IdleLater

OptimizeCreditCap ==
    /\ pc = "ranked"
    /\ selectedCourses' =
           OptimizeCourseSet_CreditCap(scoredCourses, profile, requirements, maxCreditLoad)
    /\ algorithm' = "creditCap"
    /\ pc' = "optimized"
    /\ UNCHANGED <<profile, requirements, scoredCourses, maxCreditLoad, metrics>>
    /\ UNCHANGED <<prereqVars, filterVars, checkedCourse, scores, laterVars>>

OptimizePriority ==
    /\ pc = "ranked"
    /\ selectedCourses' =
           OptimizeCourseSet_Priority(scoredCourses, profile, requirements, maxCreditLoad)
    /\ algorithm' = "priority"
    /\ pc' = "optimized"
    /\ UNCHANGED <<profile, requirements, scoredCourses, maxCreditLoad, metrics>>
    /\ UNCHANGED <<prereqVars, filterVars, checkedCourse, scores, laterVars>>

OptimizeMarginal ==
    /\ pc = "ranked"
    /\ selectedCourses' =
           OptimizeCourseSet_Marginal(scoredCourses, profile, requirements, maxCreditLoad)
    /\ algorithm' = "marginal"
    /\ pc' = "optimized"
    /\ UNCHANGED <<profile, requirements, scoredCourses, maxCreditLoad, metrics>>
    /\ UNCHANGED <<prereqVars, filterVars, checkedCourse, scores, laterVars>>

\* Step 8: EvaluateRecommendationSet(recommendedSet, studentProfile, requirements).
Evaluate ==
    /\ pc = "optimized"
    /\ metrics' = EvaluateRecommendationSet(selectedCourses, profile, requirements)
    /\ pc' = "evaluated"
    /\ UNCHANGED <<profile, requirements, scoredCourses, maxCreditLoad,
                   selectedCourses, algorithm>>
    /\ UNCHANGED <<prereqVars, filterVars, checkedCourse, scores, laterVars>>

NextOptimizer == OptimizeCreditCap \/ OptimizePriority \/ OptimizeMarginal \/ Evaluate

SpecOptimizer == InitOptimizer /\ [][NextOptimizer]_vars

-----------------------------------------------------------------------------
(* Claims checked under SpecOptimizer.                                     *)

Optimized == pc \in {"optimized", "evaluated"}

\* C1 (as claimed): for every ranked candidate list (credit hours >= 0) and
\* every credit ceiling, the credit hours of the courses OptimizeCourseSet
\* returns sum to at most the maxCreditLoad passed in.
C1_Original ==
    Optimized => calculateTotalCredits(selectedCourses) <= maxCreditLoad

\* C1 (amended): for every ranked candidate list (credit hours >= 0) and
\* every credit ceiling >= 0, the credit hours of the courses
\* OptimizeCourseSet returns sum to at most the maxCreditLoad passed in --
\* for each of the three snapshots, and for the marginal-value snapshot both
\* after its fill phase and after its credit-floor fallback.
C1_CreditCeiling ==
    maxCreditLoad >= 0 =>
        /\ Optimized => calculateTotalCredits(selectedCourses) <= maxCreditLoad
        /\ MarginalFill(scoredCourses, profile, requirements, maxCreditLoad).totalCredits
               <= maxCreditLoad

\* The fallback has added courses and has taken the total above the 60-credit
\* target, up to the ceiling.
C1_Witness ==
    /\ pc = "optimized" /\ algorithm = "marginal"
    /\ Len(selectedCourses) >
           Len(MarginalFill(scoredCourses, profile, requirements, maxCreditLoad).selectedCourses)
    /\ maxCreditLoad > TargetCeiling
    /\ calculateTotalCredits(selectedCourses) = maxCreditLoad

\* C8 (as claimed): all four metrics returned by EvaluateRecommendationSet
\* lie in [0,1], also when several selected courses teach the same missing
\* required competency.
C8_MetricsInUnit ==
    pc = "evaluated" =>
        /\ InUnit(metrics.SkillCoveragePercentage)
        /\ InUnit(metrics.PrerequisiteCompliance)
        /\ InUnit(metrics.ProgramProgressFit)
        /\ InUnit(metrics.GoodnessScore)

AllRequiredHeld ==
    \A k \in 1..Len(requirements.RequiredCompetencies) :
        requirements.RequiredCompetencies[k] \in DOMAIN profile.Competencies

\* C9 (as claimed): with an empty candidate list the selection is empty; an
\* empty selection evaluates to prerequisiteCompliance = 1.0 and to
\* skillCoverage = 1.0 only if the required-competency set is empty, else 0.0.
C9_Original ==
    /\ (Optimized /\ scoredCourses = <<>>) => selectedCourses = <<>>
    /\ (pc = "evaluated" /\ selectedCourses = <<>>) =>
          /\ metrics.PrerequisiteCompliance = R(1)
          /\ metrics.SkillCoveragePercentage =
                 IF requirements.RequiredCompetencies = <<>> THEN R(1) ELSE R(0)

\* C9 (amended): with an empty candidate list the selection is empty; an
\* empty selection evaluates to prerequisiteCompliance = 1.0 and to
\* skillCoverage = 1.0 exactly when no required competency is missing from
\* the profile's competencies (in particular when none is required), else 0.0.
C9_EmptySelection ==
    /\ (Optimized /\ scoredCourses = <<>>) => selectedCourses = <<>>
    /\ (pc = "evaluated" /\ selectedCourses = <<>>) =>
          /\ metrics.PrerequisiteCompliance = R(1)
          /\ metrics.SkillCoveragePercentage = IF AllRequiredHeld THEN R(1) ELSE R(0)

\* An empty catalog evaluated for a student who already holds every required
\* competency of a non-empty requirement list.
C9_Witness ==
    /\ pc = "evaluated" /\ scoredCourses = <<>> /\ selectedCourses = <<>>
    /\ requirements.RequiredCompetencies # <<>>
    /\ AllRequiredHeld
    /\ metrics.SkillCoveragePercentage = R(1)

Matches(courseRec) == isGraduationRequirement(courseRec.Course, requirements)

\* Rank of a selected course in the candidate list.
RankOf(courseRec) == CHOOSE i \in 1..Len(scoredCourses) : scoredCourses[i] = courseRec

Scenario1_C2 ==
    [Course |-> [CourseID |-> "C2", CourseCode |-> "C2", CreditHours |-> 3,
                 SubdomainID |-> "AI", RequiredCompetencies |-> [k \in {"A"} |-> 2],
                 TeachesCompetencies |-> <<"B">>, Prerequisites |-> <<>>],
     FitScore |-> Rat(1, 2)]

Scenario1_C3 ==
    [Course |-> [CourseID |-> "C3", CourseCode |-> "C3", CreditHours |-> 3,
                 SubdomainID |-> "AI", RequiredCompetencies |-> EmptyMap,
                 TeachesCompetencies |-> <<>>, Prerequisites |-> <<>>],
     FitScore |-> Rat(3, 5)]

\* C10: in the output of the priority-plus-fill optimizer the priority picks
\* come first: the output starts with the picks of the priority pass, and a
\* course matching a graduation requirement follows a non-matching course only
\* when three matching picks precede that course; with candidates C3 (higher
\* fit score) and C2 (teaches missing B), 3 credits each, target 6, the output
\* is [C2, C3].
C10_PriorityFirst ==
    /\ (Optimized /\ algorithm = "priority") =>
          /\ \A i, j \in 1..Len(selectedCourses) :
                (i < j /\ ~Matches(selectedCourses[i]) /\ Matches(selectedCourses[j]))
                    => Cardinality({k \in 1..(i - 1) : Matches(selectedCourses[k])})
                           >= TargetPriorityCount
          /\ LET picks == PriorityPicks(scoredCourses, requirements, maxCreditLoad).selectedCourses
             IN  /\ Len(picks) <= Len(selectedCourses)
                 /\ SubSeq(selectedCourses, 1, Len(picks)) = picks
                 /\ \A k \in 1..Len(picks) : Matches(picks[k])
    /\ LET out == OptimizeCourseSet_Priority(<<Scenario1_C3, Scenario1_C2>>, OptimizerProfile,
                                            OptimizerRequirements(<<"B">>), 6)
       IN  out = <<Scenario1_C2, Scenario1_C3>> /\ calculateTotalCredits(out) = 6

\* A priority pick placed before a fill pick that ranks higher and has a
\* strictly higher fit score.
C10_Witness ==
    /\ pc = "optimized" /\ algorithm = "priority"
    /\ Len(selectedCourses) >= 2
    /\ Matches(selectedCourses[1]) /\ ~Matches(selectedCourses[2])
    /\ RankOf(selectedCourses[2]) < RankOf(selectedCourses[1])
    /\ Gt(selectedCourses[2].FitScore, selectedCourses[1].FitScore)

-----------------------------------------------------------------------------
(* Strings whose characters matter (identifiers, course names, semesters)  *)
(* are sequences of one-character strings; the empty string is << >>.      *)

LowerCase ==
    <<"a", "b", "c", "d", "e", "f", "g", "h", "i", "j", "k", "l", "m", "n",
      "o", "p", "q", "r", "s", "t", "u", "v", "w", "x", "y", "z">>
UpperCase ==
    <<"A", "B", "C", "D", "E", "F", "G", "H", "I", "J", "K", "L", "M", "N",
      "O", "P", "Q", "R", "S", "T", "U", "V", "W", "X", "Y", "Z">>
Digits    == <<"0", "1", "2", "3", "4", "5", "6", "7", "8", "9">>

\* strings.ToUpper / strings.ToLower, character by character.
ToUpperChar(ch) ==
    IF \E i \in 1..Len(LowerCase) : LowerCase[i] = ch
        THEN UpperCase[CHOOSE i \in 1..Len(LowerCase) : LowerCase[i] = ch]
        ELSE ch

ToLowerChar(ch) ==
    IF \E i \in 1..Len(UpperCase) : UpperCase[i] = ch
        THEN LowerCase[CHOOSE i \in 1..Len(UpperCase) : UpperCase[i] = ch]
        ELSE ch

ToUpper(s) == [i \in 1..Len(s) |-> ToUpperChar(s[i])]
ToLower(s) == [i \in 1..Len(s) |-> ToLowerChar(s[i])]

\* strings.ReplaceAll(s, old, ""): leftmost non-overlapping occurrences.
RECURSIVE ReplaceAll(_, _)
ReplaceAll(s, old) ==
    IF Len(s) < Len(old) \/ Len(old) = 0 THEN s
    ELSE IF SubSeq(s, 1, Len(old)) = old
        THEN ReplaceAll(SubSeq(s, Len(old) + 1, Len(s)), old)
    ELSE <<Head(s)>> \o ReplaceAll(Tail(s), old)

WhiteSpace == {" ", "\t", "\n", "\r"}

\* strings.TrimSpace
RECURSIVE TrimLeft(_)
TrimLeft(s) == IF s # <<>> /\ Head(s) \in WhiteSpace THEN TrimLeft(Tail(s)) ELSE s

RECURSIVE TrimRight(_)
TrimRight(s) ==
    IF s # <<>> /\ s[Len(s)] \in WhiteSpace THEN TrimRight(SubSeq(s, 1, Len(s) - 1)) ELSE s

TrimSpace(s) == TrimRight(TrimLeft(s))

HasPrefix(s, prefix) == Len(s) >= Len(prefix) /\ SubSeq(s, 1, Len(prefix)) = prefix

\* strings.EqualFold on ASCII strings.
EqualFold(s, t) == ToUpper(s) = ToUpper(t)

normalizeCode(s) ==
    TrimSpace(ReplaceAll(ReplaceAll(ToUpper(s), <<" ">>), <<"-">>))

Noise == <<<<"b", "a", "s", "i", "c", " ">>,
           <<"f", "u", "n", "d", "a", "m", "e", "n", "t", "a", "l", "s", " ", "o", "f", " ">>,
           <<"i", "n", "t", "r", "o", "d", "u", "c", "t", "i", "o", "n", " ", "t", "o", " ">>,
           <<"a", "d", "v", "a", "n", "c", "e", "d", " ">>,
           <<"p", "r", "i", "n", "c", "i", "p", "l", "e", "s", " ", "o", "f", " ">>>>

RECURSIVE StripNoise(_, _)
StripNoise(s, k) == IF k > Len(Noise) THEN s ELSE StripNoise(ReplaceAll(s, Noise[k]), k + 1)

\* The regular expression [^a-z0-9]+ replaced by "".
smartCleanName(s) ==
    SelectSeq(StripNoise(ToLower(s), 1),
              LAMBDA ch : ch \in Range(LowerCase) \cup Range(Digits))

NameMarker(name) == <<"N", "A", "M", "E", ":">> \o smartCleanName(name)

\* loadIdentityMap: the keys of the file normalized.
loadIdentityMap(mapping) ==
    [k \in {normalizeCode(raw) : raw \in DOMAIN mapping} |->
        mapping[CHOOSE raw \in DOMAIN mapping : normalizeCode(raw) = k]]

-----------------------------------------------------------------------------
(* Candidate filtering: filterCandidateCourses of service.go, and the      *)
(* filter stage of handleRecommendations in part_005.                      *)

\* Variant: the prerequisite filter is left out.
filterCandidateCourses_NoPrereq(allCourses, prof, constr) ==
    SelectSeq(allCourses, LAMBDA c :
        /\ ~contains(prof.CompletedCourses, c.CourseID)
        /\ ~(~constr.isNil /\ contains(constr.ExcludeCourses, c.CourseID)))

filterCandidateCourses(allCourses, prof, constr) ==
    SelectSeq(allCourses, LAMBDA c :
        /\ ~contains(prof.CompletedCourses, c.CourseID)
        /\ CheckPrerequisites(c, prof)
        /\ ~(~constr.isNil /\ contains(constr.ExcludeCourses, c.CourseID)))

\* The markers one semester's cards contribute.
CardMarkers(card, map) ==
    {normalizeCode(card.CourseCode), normalizeCode(card.CompetencyID)}
        \cup (IF card.TemplateID # <<>> THEN {normalizeCode(card.TemplateID)} ELSE {})
        \cup (IF card.CourseName # <<>> THEN {NameMarker(card.CourseName)} ELSE {})
        \cup (IF normalizeCode(card.CourseCode) \in DOMAIN map
                  THEN {normalizeCode(map[normalizeCode(card.CourseCode)])} ELSE {})

\* The set of keys of the map fetchAllCompletedIdentityCodes returns.  A
\* semester whose fetch fails contributes nothing.
fetchAllCompletedIdentityCodes(prof, map, semCards) ==
    LET fromProfile ==
            UNION {{normalizeCode(c)} \cup
                   (IF normalizeCode(c) \in DOMAIN map
                        THEN {normalizeCode(map[normalizeCode(c)])} ELSE {}) :
                   c \in Range(prof.CompletedCourses)}
        fromSemesters ==
            UNION {UNION {CardMarkers(semCards[sem].cards[i], map) :
                          i \in 1..Len(semCards[sem].cards)} :
                   sem \in {x \in DOMAIN semCards : ~semCards[x].err}}
    IN  fromProfile \cup fromSemesters

\* "Inject IDs into Catalog"
InjectTemplateID(c, map) ==
    IF normalizeCode(c.CourseCode) \in DOMAIN map
        THEN [c EXCEPT !.TemplateID = map[normalizeCode(c.CourseCode)]]
        ELSE c

isCompleted(c, completedMap) ==
    \/ c.TemplateID # <<>> /\ normalizeCode(c.TemplateID) \in completedMap
    \/ c.CourseName # <<>> /\ NameMarker(c.CourseName) \in completedMap
    \/ normalizeCode(c.CourseCode) \in completedMap
    \/ normalizeCode(c.CourseID) \in completedMap

FilterStage005(courses, prof, map, semCards, sem) ==
    LET completedMap == fetchAllCompletedIdentityCodes(prof, map, semCards)
        injected     == [i \in 1..Len(courses) |-> InjectTemplateID(courses[i], map)]
    IN  SelectSeq(injected, LAMBDA c :
            /\ ~isCompleted(c, completedMap)
            /\ CheckPrerequisites(c, prof)
            /\ ~HasPrefix(c.CourseCode, <<"S", "O", "F", "-">>)
            /\ ~(c.SemesterOffered # <<>> /\ ~EqualFold(c.SemesterOffered, sem)))

-----------------------------------------------------------------------------
(* GetStudentProfile consuming competency cards (A1CEClient.go), and       *)
(* CheckPrerequisites called on the profile built so far.                  *)

MaxCards == 3

CardCodes    == {"P1", "P2"}
CardGrades   == {0, 2, 3}
CardStatuses == {"Completed", "Enrolled"}

\* The template id the registry attaches to each competency code.
TemplateOf(code) == IF code = "P1" THEN "T1" ELSE ""

Cards ==
    {[CourseCode |-> code, Grade |-> g, Status |-> st, TemplateID |-> TemplateOf(code)] :
        code \in CardCodes, g \in CardGrades, st \in CardStatuses}

PrerequisiteChoices == {<<>>, <<"P1">>, <<"T1">>, <<"P2", "P1">>}
RequiredGradeChoices ==
    {EmptyMap, [k \in {"P1"} |-> 2], [k \in {"P2"} |-> 3], [k \in {"P1", "P2"} |-> 2]}

CheckedCourses ==
    {[NoCourse EXCEPT !.CourseID = "X1", !.CourseCode = "X-1", !.CreditHours = 3,
                      !.SubdomainID = "AI", !.Prerequisites = pre,
                      !.RequiredCompetencies = req] :
        pre \in PrerequisiteChoices, req \in RequiredGradeChoices}

\* The profile GetStudentProfile starts from.
EmptyProfile ==
    [Competencies |-> EmptyMap, CompletedCourses |-> <<>>,
     DistributionCredits |-> EmptyMap, RequiredCompetencies |-> <<>>]

\* Map assignment m[k] = v.
Put(m, k, v) == [x \in DOMAIN m \cup {k} |-> IF x = k THEN v ELSE m[x]]

\* One iteration of the loop over the cards.
ConsumeCard(prof, card) ==
    LET completes == card.Status = "Recorded" \/ card.Status = "Completed" \/ card.Grade >= 1
        withCode  == Append(prof.CompletedCourses, card.CourseCode)
    IN  [prof EXCEPT
            !.Competencies = Put(prof.Competencies, card.CourseCode, card.Grade),
            !.CompletedCourses =
                IF ~completes THEN prof.CompletedCourses
                ELSE IF card.TemplateID # "" THEN Append(withCode, card.TemplateID)
                ELSE withCode]

InitPrerequisites ==
    /\ pc = "profile"
    /\ profile = EmptyProfile
    /\ requirements = OptimizerRequirements(<<>>)
    /\ cards = <<>>
    /\ checkedCourse \in CheckedCourses
    /\ checked = NoCheck
    /\ scores = NoScores
    /\ IdleOptimizer /\ IdleFilter /\ IdleLater

IngestCard ==
    /\ Len(cards) < MaxCards
    /\ \E card \in Cards :
          /\ cards' = Append(cards, card)
          /\ profile' = ConsumeCard(profile, card)
    /\ UNCHANGED <<pc, requirements, checkedCourse, checked, scores, optimizerVars, filterVars>>
    /\ UNCHANGED laterVars

Check ==
    /\ checked' = [called |-> TRUE, profile |-> profile,
                   result |-> CheckPrerequisites(checkedCourse, profile)]
    /\ UNCHANGED <<pc, profile, requirements, cards, checkedCourse, scores,
                   optimizerVars, filterVars, laterVars>>

NextPrerequisites == IngestCard \/ Check

SpecPrerequisites == InitPrerequisites /\ [][NextPrerequisites]_vars

-----------------------------------------------------------------------------
(* Claims checked under SpecPrerequisites.                                 *)

Completed(prof) == Range(prof.CompletedCourses)

\* C5: CheckPrerequisites(course, profile) is true exactly when every
\* prerequisite course id of the course is in the profile's completed courses
\* and every required competency of the course is present in the profile's
\* competencies with a grade >= the required minimum; a required competency
\* absent from the profile makes it false.
C5_PrerequisitesExact ==
    checked.called =>
        /\ checked.result <=>
              /\ Range(checkedCourse.Prerequisites) \subseteq Completed(checked.profile)
              /\ \A comp \in DOMAIN checkedCourse.RequiredCompetencies :
                    /\ comp \in DOMAIN checked.profile.Competencies
                    /\ checked.profile.Competencies[comp]
                           >= checkedCourse.RequiredCompetencies[comp]
        /\ (\E comp \in DOMAIN checkedCourse.RequiredCompetencies :
                comp \notin DOMAIN checked.profile.Competencies) => ~checked.result

\* A course with two prerequisites and two graded requirements, accepted.
C5_Witness ==
    /\ checked.called /\ checked.result
    /\ Len(checkedCourse.Prerequisites) = 2
    /\ Cardinality(DOMAIN checkedCourse.RequiredCompetencies) = 2

\* q has every completed course of p, and every competency p holds with a
\* grade at least as high.
Extends(p, q) ==
    /\ Completed(p) \subseteq Completed(q)
    /\ \A comp \in DOMAIN p.Competencies :
          comp \in DOMAIN q.Competencies /\ q.Competencies[comp] >= p.Competencies[comp]

\* C6: CheckPrerequisites is monotone in the profile: once true for a course
\* and a profile, it is true for the same course on every profile obtained by
\* adding completed courses and raising or newly recording competency grades.
C6_Monotone ==
    (checked.called /\ checked.result /\ Extends(checked.profile, profile))
        => CheckPrerequisites(checkedCourse, profile)

\* After an accepting call the profile gained a completed course, a newly
\* recorded competency and a raised grade on a competency the course requires.
C6_Witness ==
    /\ checked.called /\ checked.result /\ Extends(checked.profile, profile)
    /\ Completed(profile) # Completed(checked.profile)
    /\ DOMAIN profile.Competencies # DOMAIN checked.profile.Competencies
    /\ \E comp \in DOMAIN checkedCourse.RequiredCompetencies :
          profile.Competencies[comp] > checked.profile.Competencies[comp]
    /\ CheckPrerequisites(checkedCourse, profile)

-----------------------------------------------------------------------------
(* The filter stage run on a fetched profile and catalog.                  *)

MaxCatalog == 2
MaxHistory == 2

Code_CS1   == <<"C", "S", "-", "1">>
Code_cs1   == <<"c", "s", " ", "1">>
Code_CS2   == <<"C", "S", "-", "2">>
Code_CS3   == <<"C", "S", "-", "3">>
Code_SOF1  == <<"S", "O", "F", "-", "1">>
Id_1       == <<"i", "d", "1">>
Id_2       == <<"i", "d", "2">>
Id_3       == <<"i", "d", "3">>
Id_4       == <<"i", "d", "4">>
Id_cs1     == <<"c", "s", "1">>
Template_1 == <<"T", "1">>
Template_t == <<"t", "-", "1">>
Name_AI    == <<"B", "a", "s", "i", "c", " ", "A", "I">>
Name_ai    == <<"A", "I">>
Sem_S1     == <<"S", "1">>
Sem_s1     == <<"s", "1">>
Sem_F1     == <<"F", "1">>

CatalogCourse(id, code, template, name, sem, pre, req) ==
    [CourseID |-> id, CourseCode |-> code, TemplateID |-> template,
     CourseName |-> name, SemesterOffered |-> sem, CreditHours |-> 3,
     SubdomainID |-> "AI", RequiredCompetencies |-> req,
     TeachesCompetencies |-> <<>>, Prerequisites |-> pre]

\* The courses the catalog service may return.  getCoursesForSubdomain uses
\* the competency code as course id when the record has no id.
CatalogCourses ==
    {CatalogCourse(Id_1, Code_CS1, <<>>, Name_AI, <<>>, <<>>, EmptyMap),
     CatalogCourse(Id_cs1, Code_cs1, <<>>, <<>>, Sem_s1, <<>>, EmptyMap),
     CatalogCourse(Id_2, Code_CS2, Template_1, <<>>, <<>>, <<Code_CS1>>, EmptyMap),
     CatalogCourse(Code_CS1, Code_CS1, <<>>, <<>>, <<>>, <<>>, EmptyMap),
     CatalogCourse(Id_3, Code_SOF1, <<>>, <<>>, <<>>, <<>>, EmptyMap),
     CatalogCourse(Id_4, Code_CS3, <<>>, <<>>, Sem_F1, <<>>, [k \in {Code_CS1} |-> 2])}

\* GetCourseCatalog keeps the first course of each course id.
RECURSIVE CatalogsOfLen(_)
CatalogsOfLen(n) ==
    IF n = 0 THEN {<<>>}
    ELSE {Append(front, c) : front \in CatalogsOfLen(n - 1),
                             c \in CatalogCourses} \ 
         {l \in {Append(front, c) : front \in CatalogsOfLen(n - 1), c \in CatalogCourses} :
              \E i, j \in 1..Len(l) : i < j /\ l[i].CourseID = l[j].CourseID}

Catalogs == UNION {CatalogsOfLen(n) : n \in 1..MaxCatalog}

HistoryCards ==
    {[CourseCode |-> Code_CS1, Grade |-> 2, Status |-> "Completed", TemplateID |-> <<>>],
     [CourseCode |-> Code_CS1, Grade |-> 0, Status |-> "Enrolled", TemplateID |-> <<>>],
     [CourseCode |-> Id_cs1, Grade |-> 1, Status |-> "Recorded", TemplateID |-> <<>>],
     [CourseCode |-> Code_CS2, Grade |-> 2, Status |-> "Completed", TemplateID |-> Template_1]}

RECURSIVE HistoriesOfLen(_)
HistoriesOfLen(n) ==
    IF n = 0 THEN {<<>>}
    ELSE {Append(front, card) : front \in HistoriesOfLen(n - 1), card \in HistoryCards}

Histories == UNION {HistoriesOfLen(n) : n \in 0..MaxHistory}

\* GetStudentProfile's loop over the cards.
RECURSIVE ProfileOf(_)
ProfileOf(history) ==
    IF history = <<>> THEN EmptyProfile
    ELSE ConsumeCard(ProfileOf(SubSeq(history, 1, Len(history) - 1)), history[Len(history)])

\* course_identities.json as read from disk.
IdentityFiles ==
    {EmptyMap,
     [k \in {<<"c", "s", "-", "1">>, Code_CS3} |-> IF k = Code_CS3 THEN Template_1 ELSE Template_t]}

SemesterCard ==
    [CourseCode |-> Code_CS3, CompetencyID |-> Id_4, TemplateID |-> <<>>,
     CourseName |-> Name_ai]

\* What GetSemesterCompetencies returns for each semester of the history.
SemesterFetches ==
    {EmptyMap,
     [k \in {Sem_S1} |-> [err |-> TRUE, cards |-> <<>>]],
     [k \in {Sem_S1} |-> [err |-> FALSE, cards |-> <<SemesterCard>>]]}

ConstraintChoices ==
    {NoConstraints,
     [isNil |-> FALSE, ExcludeCourses |-> <<>>],
     [isNil |-> FALSE, ExcludeCourses |-> <<Id_1>>],
     [isNil |-> FALSE, ExcludeCourses |-> <<Id_4, Id_cs1>>]}

InitFilter ==
    /\ pc = "fetched"
    /\ cards \in Histories
    /\ profile = ProfileOf(cards)
    /\ requirements = OptimizerRequirements(<<>>)
    /\ catalog \in Catalogs
    /\ constraints \in ConstraintChoices
    /\ \E file \in IdentityFiles : idMap = loadIdentityMap(file)
    /\ semesterCards \in SemesterFetches
    /\ cards = <<>> => semesterCards = EmptyMap
    /\ semester \in {Sem_S1, Sem_F1}
    /\ candidates = <<>>
    /\ handler = "none"
    /\ checked = NoCheck
    /\ IdleOptimizer /\ IdleScoring /\ IdleLater

\* service.go, step 5.
FilterService ==
    /\ pc = "fetched"
    /\ candidates' = filterCandidateCourses(catalog, profile, constraints)
    /\ handler' = "service"
    /\ pc' = "filtered"
    /\ UNCHANGED <<profile, requirements, cards, checked, checkedCourse, scores,
                   catalog, constraints, idMap, semesterCards, semester, optimizerVars,
                   laterVars>>

\* part_005: identity codes fetched, template ids injected, catalog filtered.
FilterPart005 ==
    /\ pc = "fetched"
    /\ candidates' = FilterStage005(catalog, profile, idMap, semesterCards, semester)
    /\ handler' = "part005"
    /\ pc' = "filtered"
    /\ UNCHANGED <<profile, requirements, cards, checked, checkedCourse, scores,
                   catalog, constraints, idMap, semesterCards, semester, optimizerVars,
                   laterVars>>

NextFilter == FilterService \/ FilterPart005

SpecFilter == InitFilter /\ [][NextFilter]_vars

-----------------------------------------------------------------------------
(* Claims checked under SpecFilter.                                        *)

Filtered == pc = "filtered"

\* The markers of the completed courses: every entry normalized, and the
\* identity the identity map gives it.
CompletedMarkers ==
    UNION {{normalizeCode(c)} \cup
           (IF normalizeCode(c) \in DOMAIN idMap
                THEN {normalizeCode(idMap[normalizeCode(c)])} ELSE {}) :
           c \in Range(profile.CompletedCourses)}

\* The identifiers of a catalog course: id, code, and identity/template id
\* (its own, or the one the identity map gives its code).
Identifiers(c) ==
    {c.CourseID, c.CourseCode}
        \cup (IF c.TemplateID # <<>> THEN {c.TemplateID} ELSE {})
        \cup (IF normalizeCode(c.CourseCode) \in DOMAIN idMap
                  THEN {idMap[normalizeCode(c.CourseCode)]} ELSE {})

IsCompletedAlias(c) ==
    \E ident \in Identifiers(c) : normalizeCode(ident) \in CompletedMarkers

\* C2 (as claimed): no catalog course survives candidate filtering if any of
\* its identifiers (course id, course code, identity/template id) equals,
\* after normalization and identity-map lookup, a marker in the student's
\* completed courses.
C2_NoCompletedAlias ==
    Filtered => \A i \in 1..Len(candidates) : ~IsCompletedAlias(candidates[i])

\* C3: every course that survives candidate filtering satisfies
\* CheckPrerequisites for the request's profile; a catalog course whose only
\* prerequisite is a course the student has not completed is not among the
\* candidates.
C3_SurvivorsEligible ==
    Filtered =>
        /\ \A i \in 1..Len(candidates) : CheckPrerequisites(candidates[i], profile)
        /\ \A k \in 1..Len(catalog) :
              (/\ Len(catalog[k].Prerequisites) = 1
               /\ ~contains(profile.CompletedCourses, catalog[k].Prerequisites[1]))
                  => \A i \in 1..Len(candidates) :
                        candidates[i].CourseID # catalog[k].CourseID

\* A catalog of two courses, one with an uncompleted only prerequisite: the
\* other one survives alone.
C3_Witness ==
    /\ Filtered /\ Len(catalog) = 2 /\ Len(candidates) = 1
    /\ \E k \in 1..2 :
          /\ Len(catalog[k].Prerequisites) = 1
          /\ ~contains(profile.CompletedCourses, catalog[k].Prerequisites[1])
          /\ candidates[1].CourseID # catalog[k].CourseID
          /\ catalog[k].CourseID \notin Range(constraints.ExcludeCourses)
          /\ ~IsCompletedAlias(catalog[k])

\* C4 (as claimed): for every request that carries an exclusion list, no
\* course whose identifier is in that list appears among the filtered
\* candidates.
C4_ExclusionHonoured ==
    (Filtered /\ ~constraints.isNil) =>
        \A i \in 1..Len(candidates) :
            candidates[i].CourseID \notin Range(constraints.ExcludeCourses)

-----------------------------------------------------------------------------
(* Fit scoring (recommender.go, scoreCourses of service.go).  Grades and   *)
(* credits are whole numbers here; the weights 0.4, 0.3, ... are the exact *)
(* fractions.                                                              *)

CalculateCompetencyMatchScore(course, prof) ==
    LET requiredComps == getMapKeys(course.RequiredCompetencies)
        studentComps  == getMapKeys(prof.Competencies)
        taughtComps   == course.TeachesCompetencies
        matched       == intersection(requiredComps, studentComps)
        newSkills     == difference(taughtComps, studentComps)
        prereqSatisfaction ==
            IF Len(requiredComps) > 0
                THEN Div(R(Len(matched)), R(Len(requiredComps))) ELSE R(1)
        skillGapFill ==
            IF Len(taughtComps) > 0
                THEN Div(R(Len(newSkills)), R(Len(taughtComps))) ELSE R(0)
        gradeOf(comp) ==
            LET requiredGrade == R(course.RequiredCompetencies[comp])
                studentGrade  == R(prof.Competencies[comp])
            IN  IF Geq(studentGrade, requiredGrade) THEN R(1)
                ELSE Div(studentGrade, requiredGrade)
        gradeMatchScore ==
            IF Len(matched) > 0
                THEN Div(SumRat([i \in 1..Len(matched) |-> gradeOf(matched[i])]),
                         R(Len(matched)))
                ELSE R(1)
    IN  Add(Add(Mul(Rat(2, 5), prereqSatisfaction), Mul(Rat(3, 10), gradeMatchScore)),
            Mul(Rat(3, 10), skillGapFill))

CalculateInterestScore(course, prof) ==
    LET baseInterest ==
            IF course.SubdomainID \in DOMAIN prof.InterestWeights
                THEN prof.InterestWeights[course.SubdomainID] ELSE Rat(1, 10)
    IN  IF Gt(baseInterest, R(1)) THEN R(1) ELSE baseInterest

CalculateProgramProgressScore(course, prof, reqs) ==
    LET missingRequired ==
            difference(reqs.RequiredCompetencies, getMapKeys(prof.Competencies))
        requiredTaught == intersection(missingRequired, course.TeachesCompetencies)
        requiredCompScore ==
            IF Len(missingRequired) > 0
                THEN Div(R(Len(requiredTaught)), R(Len(missingRequired))) ELSE R(0)
        subdomain == course.SubdomainID
        requiredCredits ==
            IF subdomain \in DOMAIN reqs.DistributionRequirements
                THEN R(reqs.DistributionRequirements[subdomain]) ELSE R(0)
        completedCredits ==
            IF subdomain \in DOMAIN prof.DistributionCredits
                THEN R(prof.DistributionCredits[subdomain]) ELSE R(0)
        creditGap == MathMax(R(0), Sub(requiredCredits, completedCredits))
        distributionScore ==
            IF Gt(requiredCredits, R(0))
                THEN IF Gt(creditGap, R(0))
                         THEN Mul(MathMin(R(1), Div(R(course.CreditHours), creditGap)),
                                  Div(creditGap, requiredCredits))
                         ELSE Rat(1, 5)
                ELSE Rat(3, 10)
        totalProgress == Div(R(prof.TotalCredits), R(reqs.TotalCreditsRequired))
        urgencyMultiplier ==
            IF Lt(totalProgress, Rat(1, 2)) THEN Rat(6, 5)
            ELSE IF Lt(totalProgress, Rat(3, 4)) THEN Rat(11, 10)
            ELSE R(1)
        progressScore ==
            Mul(Add(Add(Mul(Rat(1, 2), requiredCompScore), Mul(Rat(2, 5), distributionScore)),
                    Mul(Rat(1, 10), Sub(R(1), totalProgress))),
                urgencyMultiplier)
    IN  IF Gt(progressScore, R(1)) THEN R(1) ELSE progressScore

\* The scores of one course; wComp, wInterest, wProgress are the weights of
\* the fit score.
ScoreCourse(course, prof, reqs, wComp, wInterest, wProgress) ==
    LET compScore     == CalculateCompetencyMatchScore(course, prof)
        interestScore == CalculateInterestScore(course, prof)
        progressScore == CalculateProgramProgressScore(course, prof, reqs)
    IN  [CompetencyMatchScore |-> compScore,
         InterestAlignmentScore |-> interestScore,
         ProgramProgressScore |-> progressScore,
         FitScore |-> Add(Add(Mul(wComp, compScore), Mul(wInterest, interestScore)),
                          Mul(wProgress, progressScore))]

ScoredCourseChoices ==
    {[NoCourse EXCEPT !.CourseID = "X1", !.CourseCode = "X-1",
                      !.RequiredCompetencies = req, !.TeachesCompetencies = teaches,
                      !.CreditHours = credits, !.SubdomainID = subdomain] :
        req \in {EmptyMap, [k \in {"A"} |-> 2]},
        teaches \in {<<>>, <<"B">>, <<"B", "C">>},
        credits \in {0, 3},
        subdomain \in {"AI", "Art"}}

CompetencyChoices ==
    {EmptyMap, [k \in {"A"} |-> 1], [k \in {"A"} |-> 3], [k \in {"A"} |-> -4]}

\* Empty, and weights InferInterestAreas computes: 1/2, and the pair -1/6,
\* 7/6 it gives two areas when one of two completed courses has grade -4.
InterestWeightChoices ==
    {EmptyMap, [k \in {"AI"} |-> Rat(1, 2)], [k \in {"AI"} |-> Rat(7, 6)],
     [k \in {"AI"} |-> Rat(-1, 6)]}

EarnedAreaChoices  == {EmptyMap, [k \in {"AI"} |-> 6], [k \in {"AI"} |-> 36]}
TotalCreditChoices == {0, 90, 240}

RequiredCompetencyChoices == {<<>>, <<"B">>, <<"B", "C">>}

ScoringProfiles ==
    {[Competencies |-> comps, CompletedCourses |-> <<>>,
      DistributionCredits |-> earned, RequiredCompetencies |-> required,
      TotalCredits |-> total, InterestWeights |-> weights] :
        comps \in CompetencyChoices, earned \in EarnedAreaChoices,
        required \in RequiredCompetencyChoices,
        total \in TotalCreditChoices, weights \in InterestWeightChoices}

\* Step 3 of GenerateRecommendations.
ServiceRequirements(prof) ==
    [RequiredCompetencies |-> prof.RequiredCompetencies,
     DistributionRequirements |->
         [k \in {"AI", "SE", "Math"} |->
             IF k = "AI" THEN 36 ELSE IF k = "SE" THEN 24 ELSE 12],
     TotalCreditsRequired |-> 120]

InitScoring ==
    /\ pc = "candidate"
    /\ checkedCourse \in ScoredCourseChoices
    /\ profile \in ScoringProfiles
    /\ requirements = OptimizerRequirements(<<>>)
    /\ scores = NoScores
    /\ IdleOptimizer /\ IdlePrereq /\ IdleFilter /\ IdleLater

\* Steps 3 and 6 of GenerateRecommendations for one candidate course:
\* scoreCourses with fit = 0.4 comp + 0.3 interest + 0.3 progress.
ScoreService ==
    /\ pc = "candidate"
    /\ requirements' = ServiceRequirements(profile)
    /\ scores' = ScoreCourse(checkedCourse, profile, ServiceRequirements(profile),
                             Rat(2, 5), Rat(3, 10), Rat(3, 10))
    /\ pc' = "scored"
    /\ UNCHANGED <<profile, checkedCourse, prereqVars, optimizerVars, filterVars,
                   laterVars>>

NextScoring == ScoreService

SpecScoring == InitScoring /\ [][NextScoring]_vars

-----------------------------------------------------------------------------
(* Claims checked under SpecScoring.                                       *)

\* C7 (as claimed): for all courses, profiles and requirements, the
\* competency-match score, the interest score, the program-progress score and
\* the combined fit score each lie in [0,1].
C7_ScoresInUnit ==
    pc = "scored" =>
        /\ InUnit(scores.CompetencyMatchScore)
        /\ InUnit(scores.InterestAlignmentScore)
        /\ InUnit(scores.ProgramProgressScore)
        /\ InUnit(scores.FitScore)

-----------------------------------------------------------------------------
(* Ranking of the scored candidates: sort.Slice in scoreCourses            *)
(* (service.go) and the exchange loops of handleRecommendations (part_003, *)
(* part_005).                                                              *)

MaxScored == 4

RankFitChoices == {R(1), Rat(1, 2), Rat(1, 5)}

\* Scored candidates in catalog order: the i-th has course id CourseIds[i].
RECURSIVE ScoredListsOfLen(_)
ScoredListsOfLen(n) ==
    IF n = 0 THEN {<<>>}
    ELSE {Append(front, Candidate(n, 3, "AI", <<>>, fit)) :
              front \in ScoredListsOfLen(n - 1), fit \in RankFitChoices}

ScoredLists == UNION {ScoredListsOfLen(n) : n \in 0..MaxScored}

Swap(s, i, j) ==
    [k \in 1..Len(s) |-> IF k = i THEN s[j] ELSE IF k = j THEN s[i] ELSE s[k]]

\* for i := 0 ..; for j := i + 1 ..; if s[i].FitScore < s[j].FitScore { swap }
RECURSIVE ExchangeSortFrom(_, _, _)
ExchangeSortFrom(s, i, j) ==
    IF i > Len(s) THEN s
    ELSE IF j > Len(s) THEN ExchangeSortFrom(s, i + 1, i + 2)
    ELSE ExchangeSortFrom(IF Lt(s[i].FitScore, s[j].FitScore) THEN Swap(s, i, j) ELSE s,
                          i, j + 1)

ExchangeSort(s) == ExchangeSortFrom(s, 1, 2)

\* sort.Slice(scored, less) with less(i, j) = scored[i].FitScore >
\* scored[j].FitScore.  The sort is not stable: any arrangement of the
\* elements in which no element is "less" than its predecessor can result
\* (equal elements are reordered once the slice is longer than the
\* insertion-sort threshold; the short lists here stand for lists of any
\* length).
SortSliceOutcomes(s) ==
    {[k \in 1..Len(s) |-> s[p[k]]] :
        p \in {q \in [1..Len(s) -> 1..Len(s)] :
                  /\ \A a, b \in 1..Len(s) : a # b => q[a] # q[b]
                  /\ \A k \in 1..(Len(s) - 1) :
                        ~Gt(s[q[k + 1]].FitScore, s[q[k]].FitScore)}}

InitRanking ==
    /\ pc = "scored"
    /\ scored \in ScoredLists
    /\ profile = OptimizerProfile
    /\ requirements = OptimizerRequirements(<<>>)
    /\ IdleOptimizer /\ IdlePrereq /\ IdleFilter /\ IdleScoring /\ IdleService /\ IdleMore

\* scoreCourses: the trailing sort.Slice.
SortService ==
    /\ pc = "scored"
    /\ scoredCourses' \in SortSliceOutcomes(scored)
    /\ handler' = "service"
    /\ pc' = "ranked"
    /\ UNCHANGED <<profile, requirements, maxCreditLoad, selectedCourses, algorithm,
                   metrics, prereqVars, checkedCourse, scores, scored,
                   catalog, constraints, idMap, semesterCards, semester, candidates,
                   serviceVars, moreVars>>

\* handleRecommendations of part_003 and part_005: the exchange loops.
SortExchange ==
    /\ pc = "scored"
    /\ scoredCourses' = ExchangeSort(scored)
    /\ handler' = "part003"
    /\ pc' = "ranked"
    /\ UNCHANGED <<profile, requirements, maxCreditLoad, selectedCourses, algorithm,
                   metrics, prereqVars, checkedCourse, scores, scored,
                   catalog, constraints, idMap, semesterCards, semester, candidates,
                   serviceVars, moreVars>>

NextRanking == SortService \/ SortExchange

SpecRanking == InitRanking /\ [][NextRanking]_vars

-----------------------------------------------------------------------------
(* Claims checked under SpecRanking.                                       *)

\* Position of the candidate with the given course id in the ranked list.
RankedAt(id) == CHOOSE k \in 1..Len(scoredCourses) : scoredCourses[k].Course.CourseID = id

\* C11 (as claimed): the ranked candidate list handed to the optimizer holds
\* the scored candidates ordered by fit score descending, and any two
\* candidates with equal fit score appear in their original catalog order.
C11_RankedStable ==
    pc = "ranked" =>
        /\ Len(scoredCourses) = Len(scored)
        /\ Range(scoredCourses) = Range(scored)
        /\ IsRanked(scoredCourses)
        /\ \A i, j \in 1..Len(scored) :
              (i < j /\ scored[i].FitScore = scored[j].FitScore)
                  => RankedAt(scored[i].Course.CourseID) < RankedAt(scored[j].Course.CourseID)

-----------------------------------------------------------------------------
(* Interest inference (InferInterestAreas of recommender.go).              *)

\* Variant: the weights are returned without the normalization pass.
InferInterestAreas_NoNormalize(completedCourses, courseCatalog, competencies) ==
    LET inCatalog(id) == \E k \in 1..Len(courseCatalog) : courseCatalog[k].CourseID = id
        courseMap(id) ==
            courseCatalog[CHOOSE k \in 1..Len(courseCatalog) :
                /\ courseCatalog[k].CourseID = id
                /\ \A m \in (k + 1)..Len(courseCatalog) : courseCatalog[m].CourseID # id]
        found == SelectSeq(completedCourses, inCatalog)
        subdomains == {courseMap(found[i]).SubdomainID : i \in 1..Len(found)}
        ofSubdomain(sub) ==
            SelectSeq(found, LAMBDA id : courseMap(id).SubdomainID = sub)
        rawWeight(sub) ==
            LET taken == ofSubdomain(sub)
            IN  Add(Mul(Rat(3, 5), Div(R(Len(taken)), R(Len(completedCourses)))),
                    Mul(Rat(2, 5), Rat(1, 2)))
    IN  IF Len(completedCourses) = 0 THEN EmptyMap
        ELSE [sub \in subdomains |-> rawWeight(sub)]

InferInterestAreas(completedCourses, courseCatalog, competencies) ==
    LET inCatalog(id) == \E k \in 1..Len(courseCatalog) : courseCatalog[k].CourseID = id
        \* courseMap[id]: a later catalog entry overwrites an earlier one.
        courseMap(id) ==
            courseCatalog[CHOOSE k \in 1..Len(courseCatalog) :
                /\ courseCatalog[k].CourseID = id
                /\ \A m \in (k + 1)..Len(courseCatalog) : courseCatalog[m].CourseID # id]
        found == SelectSeq(completedCourses, inCatalog)
        subdomains == {courseMap(found[i]).SubdomainID : i \in 1..Len(found)}
        ofSubdomain(sub) ==
            SelectSeq(found, LAMBDA id : courseMap(id).SubdomainID = sub)
        \* subdomainPerformance[sub]: the grades of the graded ones.
        performance(sub) ==
            LET graded == SelectSeq(ofSubdomain(sub), LAMBDA id : id \in DOMAIN competencies)
            IN  [i \in 1..Len(graded) |-> R(competencies[graded[i]])]
        rawWeight(sub) ==
            LET concentrationWeight ==
                    Div(R(Len(ofSubdomain(sub))), R(Len(completedCourses)))
                performanceWeight ==
                    IF Len(performance(sub)) > 0
                        THEN Div(mean(performance(sub)), R(4)) ELSE Rat(1, 2)
            IN  Add(Mul(Rat(3, 5), concentrationWeight), Mul(Rat(2, 5), performanceWeight))
        subdomainSeq == SetToSeq(subdomains)
        totalWeight ==
            SumRat([i \in 1..Len(subdomainSeq) |-> rawWeight(subdomainSeq[i])])
    IN  IF Len(completedCourses) = 0 THEN EmptyMap
        ELSE [sub \in subdomains |->
                 IF Gt(totalWeight, R(0)) THEN Div(rawWeight(sub), totalWeight)
                 ELSE rawWeight(sub)]

MaxCompleted == 3

CompletedIdChoices == {"C1", "C2", "Z9"}

RECURSIVE CompletedListsOfLen(_)
CompletedListsOfLen(n) ==
    IF n = 0 THEN {<<>>}
    ELSE {Append(front, id) : front \in CompletedListsOfLen(n - 1), id \in CompletedIdChoices}

CompletedLists == UNION {CompletedListsOfLen(n) : n \in 0..MaxCompleted}

InterestCourse(id, subdomain) ==
    [NoCourse EXCEPT !.CourseID = id, !.CourseCode = id, !.CreditHours = 3,
                     !.SubdomainID = subdomain]

\* Catalogs; "Z9" is in none of them.
InterestCatalogs ==
    {<<>>,
     <<InterestCourse("C1", "AI"), InterestCourse("C2", "Art")>>,
     <<InterestCourse("C1", "AI"), InterestCourse("C2", "AI")>>}

\* Grades on record, typical ones (0..4) and one below the scale.
InterestGradeChoices ==
    {comps \in UNION {[ids -> {-4, 0, 2, 4}] : ids \in SUBSET {"C1", "C2"}} :
        "C2" \in DOMAIN comps => comps["C2"] \in {2, 4}}

InitInterest ==
    /\ pc = "fetched"
    /\ \E taken \in CompletedLists, comps \in InterestGradeChoices :
          profile = [Competencies |-> comps, CompletedCourses |-> taken,
                     DistributionCredits |-> EmptyMap, RequiredCompetencies |-> <<>>,
                     TotalCredits |-> 0, InterestWeights |-> EmptyMap]
    /\ catalog \in InterestCatalogs
    /\ requirements = OptimizerRequirements(<<>>)
    /\ constraints = NoConstraints /\ idMap = EmptyMap /\ semesterCards = EmptyMap
    /\ semester = <<>> /\ candidates = <<>> /\ handler = "none"
    /\ IdleOptimizer /\ IdlePrereq /\ IdleScoring /\ IdleLater

\* Step 4 of GenerateRecommendations.
InferInterests ==
    /\ pc = "fetched"
    /\ profile' = [profile EXCEPT !.InterestWeights =
                      InferInterestAreas(profile.CompletedCourses, catalog,
                                         profile.Competencies)]
    /\ pc' = "inferred"
    /\ UNCHANGED <<requirements, optimizerVars, prereqVars, filterVars, checkedCourse,
                   scores, laterVars>>

NextInterest == InferInterests

SpecInterest == InitInterest /\ [][NextInterest]_vars

-----------------------------------------------------------------------------
(* Claims checked under SpecInterest.                                      *)

WeightSum(weights) ==
    LET keys == SetToSeq(DOMAIN weights)
    IN  SumRat([i \in 1..Len(keys) |-> weights[keys[i]]])

GradesOnScale == \A id \in DOMAIN profile.Competencies : profile.Competencies[id] >= 0

-----------------------------------------------------------------------------
(* Specification SpecService: GenerateRecommendations of service.go, one   *)
(* request from the profile fetch to the returned (result, err) pair.      *)
(* The A1CE API answers each request of the client with data or with a     *)
(* failure.  The graduation status carries no distribution credits here,   *)
(* so that the profile layout the scoring functions read and the one the   *)
(* evaluator reads coincide; TotalCredits holds the earned credits.        *)

\* The profile GetStudentProfile starts from.
FreshProfile ==
    [Competencies |-> EmptyMap, CompletedCourses |-> <<>>,
     DistributionCredits |-> EmptyMap, RequiredCompetencies |-> <<>>,
     TotalCredits |-> 0, InterestWeights |-> EmptyMap]

\* GetStudentProfile with a failed cards request treated as fatal.
GetStudentProfile_CardsFatal(up) ==
    [err |-> up.identityErr \/ up.cardsErr,
     profile |-> FreshProfile]

RECURSIVE ConsumeCards(_, _)
ConsumeCards(prof, cs) ==
    IF cs = <<>> THEN prof
    ELSE ConsumeCards(ConsumeCard(prof, Head(cs)), Tail(cs))

\* GetStudentProfile: only a failed identity request is returned as an
\* error; failed cards and graduation-status requests leave their part of
\* the profile empty.
GetStudentProfile(up) ==
    LET fresh == FreshProfile
        withCards == IF up.cardsErr THEN fresh ELSE ConsumeCards(fresh, up.cards)
        withStatus ==
            IF up.graduationErr THEN withCards
            ELSE [withCards EXCEPT !.RequiredCompetencies = up.required,
                                   !.TotalCredits = up.earned]
    IN  IF up.identityErr THEN [err |-> TRUE, profile |-> fresh]
        ELSE [err |-> FALSE, profile |-> withStatus]

\* The inner loop of GetCourseCatalog: courses whose id was not seen yet.
RECURSIVE AppendUnseen(_, _)
AppendUnseen(courses, fetched) ==
    IF fetched = <<>> THEN courses
    ELSE AppendUnseen(
             IF \E k \in 1..Len(courses) : courses[k].CourseID = Head(fetched).CourseID
                 THEN courses ELSE Append(courses, Head(fetched)),
             Tail(fetched))

\* The outer loop, over the subdomains in the order the map yields them; a
\* subdomain whose request fails is skipped.
RECURSIVE CollectSubdomains(_, _, _)
CollectSubdomains(subdomains, order, courses) ==
    IF order = <<>> THEN courses
    ELSE CollectSubdomains(subdomains, Tail(order),
             IF subdomains[Head(order)].err THEN courses
             ELSE AppendUnseen(courses, subdomains[Head(order)].courses))

\* GetCourseCatalog: only a failed subdomain-list request is an error.
GetCourseCatalog(up, order) ==
    IF up.subdomainsErr THEN [err |-> TRUE, courses |-> <<>>]
    ELSE [err |-> FALSE, courses |-> CollectSubdomains(up.subdomains, order, <<>>)]

\* The orders in which a range loop may visit the keys of a map.
RangeOrders(m) ==
    {order \in [1..Cardinality(DOMAIN m) -> DOMAIN m] :
        \A a, b \in DOMAIN order : a # b => order[a] # order[b]}

\* One iteration of scoreCourses.
RecommendedCourse(course, prof, reqs) ==
    LET s == ScoreCourse(course, prof, reqs, Rat(2, 5), Rat(3, 10), Rat(3, 10))
    IN  [Course |-> course, FitScore |-> s.FitScore,
         CompetencyMatchScore |-> s.CompetencyMatchScore,
         InterestAlignmentScore |-> s.InterestAlignmentScore,
         ProgramProgressScore |-> s.ProgramProgressScore]

ServiceCourse(id, subdomain, credits, prerequisites, teaches) ==
    [NoCourse EXCEPT !.CourseID = id, !.CourseCode = id, !.CreditHours = credits,
                     !.SubdomainID = subdomain, !.Prerequisites = prerequisites,
                     !.TeachesCompetencies = teaches]

Course_C1 == ServiceCourse("C1", "AI", 3, <<>>, <<"A">>)
Course_C2 == ServiceCourse("C2", "AI", 3, <<"C1">>, <<"B">>)
Course_C3 == ServiceCourse("C3", "SE", 30, <<>>, <<"C">>)

\* What the two subdomain requests answer; C1 may be listed under both.
ServiceSubdomains ==
    {[k \in {"AI", "SE"} |->
         IF k = "AI" THEN [err |-> aiErr, courses |-> <<Course_C1, Course_C2>>]
         ELSE [err |-> seErr, courses |-> seCourses]] :
        aiErr \in BOOLEAN, seErr \in BOOLEAN,
        seCourses \in {<<Course_C3>>, <<Course_C3, Course_C1>>}}

ServiceCards ==
    {<<>>,
     <<[CourseCode |-> "C1", Grade |-> 3, Status |-> "Completed", TemplateID |-> ""]>>,
     <<[CourseCode |-> "C1", Grade |-> 0, Status |-> "Enrolled", TemplateID |-> ""]>>}

Upstreams ==
    {[identityErr |-> ie, cardsErr |-> ce, graduationErr |-> ge, subdomainsErr |-> se,
      cards |-> cs, required |-> required, earned |-> earned, subdomains |-> subs] :
        ie \in BOOLEAN, ce \in BOOLEAN, ge \in BOOLEAN, se \in BOOLEAN,
        cs \in ServiceCards, required \in {<<>>, <<"B">>}, earned \in {0, 60},
        subs \in ServiceSubdomains}

ServiceLoadChoices == {0, 6, 60}

ServiceConstraintChoices ==
    {NoConstraints, [isNil |-> FALSE, ExcludeCourses |-> <<"C3">>]}

InitService ==
    /\ pc = "request"
    /\ upstream \in Upstreams
    /\ maxCreditLoad \in ServiceLoadChoices
    /\ constraints \in ServiceConstraintChoices
    /\ response = NoResponse
    /\ stages = <<>>
    /\ scored = <<>>
    /\ profile = FreshProfile
    /\ requirements = OptimizerRequirements(<<>>)
    /\ scoredCourses = <<>> /\ selectedCourses = <<>>
    /\ algorithm = "none" /\ metrics = NoMetrics
    /\ catalog = <<>> /\ idMap = EmptyMap /\ semesterCards = EmptyMap
    /\ semester = <<>> /\ candidates = <<>> /\ handler = "service"
    /\ IdlePrereq /\ IdleScoring /\ IdleMore

ErrorResponse(message) == [result |-> NoResult, err |-> message]

\* Step 1.
ServiceFetchProfile ==
    /\ pc = "request"
    /\ stages' = Append(stages, "profile")
    /\ LET got == GetStudentProfile(upstream)
       IN  IF got.err
               THEN /\ response' = ErrorResponse("failed to fetch student profile")
                    /\ pc' = "returned"
                    /\ UNCHANGED profile
               ELSE /\ profile' = got.profile
                    /\ pc' = "haveProfile"
                    /\ UNCHANGED response
    /\ UNCHANGED <<requirements, optimizerVars, prereqVars, filterVars, checkedCourse,
                   scores, scored, upstream,
                   moreVars>>

\* Step 2.
ServiceFetchCatalog ==
    /\ pc = "haveProfile"
    /\ stages' = Append(stages, "catalog")
    /\ \E order \in RangeOrders(upstream.subdomains) :
          LET got == GetCourseCatalog(upstream, order)
          IN  IF got.err
                  THEN /\ response' = ErrorResponse("failed to fetch course catalog")
                       /\ pc' = "returned"
                       /\ UNCHANGED catalog
                  ELSE /\ catalog' = got.courses
                       /\ pc' = "haveCatalog"
                       /\ UNCHANGED response
    /\ UNCHANGED <<profile, requirements, optimizerVars, prereqVars, constraints, idMap,
                   semesterCards, semester, candidates, handler, checkedCourse, scores,
                   scored, upstream,
                   moreVars>>

\* Steps 3 and 4.
ServiceInferInterests ==
    /\ pc = "haveCatalog"
    /\ stages' = Append(stages, "interests")
    /\ requirements' = ServiceRequirements(profile)
    /\ profile' = [profile EXCEPT !.InterestWeights =
                      InferInterestAreas(profile.CompletedCourses, catalog,
                                         profile.Competencies)]
    /\ pc' = "inferred"
    /\ UNCHANGED <<optimizerVars, prereqVars, filterVars, checkedCourse, scores, scored,
                   upstream, response,
                   moreVars>>

\* Step 5.
ServiceFilter ==
    /\ pc = "inferred"
    /\ stages' = Append(stages, "filter")
    /\ candidates' = filterCandidateCourses(catalog, profile, constraints)
    /\ pc' = "filtered"
    /\ UNCHANGED <<profile, requirements, optimizerVars, prereqVars, catalog, constraints,
                   idMap, semesterCards, semester, handler, checkedCourse, scores, scored,
                   upstream, response,
                   moreVars>>

\* Step 6: scoreCourses, the sort included.
ServiceScore ==
    /\ pc = "filtered"
    /\ stages' = Append(stages, "score")
    /\ scored' = [i \in 1..Len(candidates) |->
                     RecommendedCourse(candidates[i], profile, requirements)]
    /\ scoredCourses' \in SortSliceOutcomes(scored')
    /\ pc' = "scoredAll"
    /\ UNCHANGED <<profile, requirements, maxCreditLoad, selectedCourses, algorithm,
                   metrics, prereqVars, filterVars, checkedCourse, scores, upstream,
                   response,
                   moreVars>>

\* Step 7.
ServiceOptimize ==
    /\ pc = "scoredAll"
    /\ stages' = Append(stages, "optimize")
    /\ selectedCourses' =
           OptimizeCourseSet_CreditCap(scoredCourses, profile, requirements, maxCreditLoad)
    /\ algorithm' = "creditCap"
    /\ pc' = "selected"
    /\ UNCHANGED <<profile, requirements, scoredCourses, maxCreditLoad, metrics,
                   prereqVars, filterVars, checkedCourse, scores, scored, upstream,
                   response,
                   moreVars>>

\* Step 8.
ServiceEvaluate ==
    /\ pc = "selected"
    /\ stages' = Append(stages, "evaluate")
    /\ metrics' = EvaluateRecommendationSet(selectedCourses, profile, requirements)
    /\ pc' = "measured"
    /\ UNCHANGED <<profile, requirements, scoredCourses, maxCreditLoad, selectedCourses,
                   algorithm, prereqVars, filterVars, checkedCourse, scores, scored,
                   upstream, response,
                   moreVars>>

\* Step 9.
ServiceRespond ==
    /\ pc = "measured"
    /\ stages' = Append(stages, "respond")
    /\ response' =
           [result |-> [isNil |-> FALSE,
                        RecommendedSet |-> selectedCourses,
                        TotalCredits |-> calculateTotalCredits(selectedCourses),
                        Metrics |-> metrics,
                        DistributionCoverage |->
                            calculateDistributionCoverage(selectedCourses),
                        Status |-> "success"],
            err |-> ""]
    /\ pc' = "returned"
    /\ UNCHANGED <<profile, requirements, optimizerVars, prereqVars, filterVars,
                   checkedCourse, scores, scored, upstream,
                   moreVars>>

NextService ==
    \/ ServiceFetchProfile \/ ServiceFetchCatalog \/ ServiceInferInterests
    \/ ServiceFilter \/ ServiceScore \/ ServiceOptimize \/ ServiceEvaluate
    \/ ServiceRespond

SpecService == InitService /\ [][NextService]_vars

-----------------------------------------------------------------------------
(* Claims checked under SpecService.                                       *)

LaterStages == {"interests", "filter", "score", "optimize", "evaluate", "respond"}

\* The response carries the whole outcome of steps 7 to 9.
CompleteResult ==
    /\ ~response.result.isNil
    /\ response.result.Status = "success"
    /\ response.result.RecommendedSet = selectedCourses
    /\ response.result.TotalCredits = calculateTotalCredits(selectedCourses)
    /\ response.result.Metrics = metrics
    /\ response.result.DistributionCoverage = calculateDistributionCoverage(selectedCourses)
    /\ stages = <<"profile", "catalog", "interests", "filter", "score", "optimize",
                  "evaluate", "respond">>

\* C12: GenerateRecommendations returns either a complete recommendation
\* set with no error or no result with one error, never both and never a
\* partial set; it returns the error exactly when the profile fetch (the
\* identity request of GetStudentProfile) or the catalog fetch (the
\* subdomain-list request of GetCourseCatalog) fails, and then none of the
\* later stages (interest inference, filtering, scoring, optimization,
\* evaluation) has run.
C12_ResultOrError ==
    pc = "returned" =>
        /\ \/ response.err = "" /\ CompleteResult
           \/ response.err # "" /\ response.result = NoResult
        /\ response.err # "" <=> (upstream.identityErr \/ upstream.subdomainsErr)
        /\ response.err # "" =>
              /\ Range(stages) \cap LaterStages = {}
              /\ profile.InterestWeights = EmptyMap /\ candidates = <<>>
              /\ scoredCourses = <<>> /\ selectedCourses = <<>> /\ metrics = NoMetrics

\* A request that got its profile although the cards and graduation-status
\* requests failed, and then failed on the catalog fetch.
C12_Witness ==
    /\ pc = "returned"
    /\ response.err = "failed to fetch course catalog" /\ response.result.isNil
    /\ ~upstream.identityErr /\ upstream.cardsErr /\ upstream.graduationErr
    /\ stages = <<"profile", "catalog">>

\* A complete, non-empty set returned although the cards request failed.
ServedWithoutCards ==
    /\ pc = "returned"
    /\ response.err = "" /\ upstream.cardsErr
    /\ Len(response.result.RecommendedSet) = 2
-----------------------------------------------------------------------------
(* Specification SpecEvaluate: EvaluateRecommendationSet called twice on   *)
(* the same selection, profile and requirements.                           *)
(* Here the metrics are computed as the build computes them, in binary     *)
(* floating point: every operation rounds its exact result to the nearest  *)
(* value with MantissaBits significant bits, ties to even (float64 keeps   *)
(* 53 bits; the model keeps fewer, which moves the roundings to other      *)
(* inputs and leaves the arithmetic otherwise as it is).  The loop over    *)
(* requirements.DistributionRequirements is a range over a Go map, whose   *)
(* iteration order is not specified and varies from one loop to the next.  *)

MantissaBits == 7

RECURSIVE Pow2(_)
Pow2(k) == IF k = 0 THEN 1 ELSE 2 * Pow2(k - 1)

\* n/d * un/ud is the value to round; n/d is scaled into
\* [2^(MantissaBits-1), 2^MantissaBits) and rounded to an integer there.
RECURSIVE RoundScaled(_, _, _, _)
RoundScaled(n, d, un, ud) ==
    IF n >= d * Pow2(MantissaBits) THEN RoundScaled(n, 2 * d, 2 * un, ud)
    ELSE IF n < d * Pow2(MantissaBits - 1) THEN RoundScaled(2 * n, d, un, 2 * ud)
    ELSE LET m == n \div d
             rem == n - m * d
             up == 2 * rem > d \/ (2 * rem = d /\ m % 2 = 1)
         IN  Rat((IF up THEN m + 1 ELSE m) * un, ud)

\* The floating-point value nearest to x.
Fl(x) ==
    IF ~IsFinite(x) \/ x.n = 0 THEN x
    ELSE IF x.n < 0 THEN Neg(RoundScaled(-x.n, x.d, 1, 1))
    ELSE RoundScaled(x.n, x.d, 1, 1)

FAdd(x, y) == Fl(Add(x, y))
FMul(x, y) == Fl(Mul(x, y))
FDiv(x, y) == Fl(Div(x, y))

\* mean of recommender.go: sum := 0.0; sum += v in slice order.
RECURSIVE FloatSum(_)
FloatSum(values) ==
    IF values = <<>> THEN R(0)
    ELSE FAdd(FloatSum(SubSeq(values, 1, Len(values) - 1)), values[Len(values)])

FloatMean(values) ==
    IF Len(values) = 0 THEN R(0) ELSE FDiv(FloatSum(values), R(Len(values)))

\* Component 2 of CalculateProgramProgressFit, the areas visited in `order`.
DistributionProgress_Ordered(recommendedSet, studentProfile, reqs, order) ==
    LET distributionProgressScores ==
            [i \in 1..Len(order) |->
                Fl(AreaProgress(order[i], recommendedSet, studentProfile, reqs))]
    IN  IF Len(distributionProgressScores) > 0
            THEN FloatMean(distributionProgressScores)
            ELSE R(1)

CalculateProgramProgressFit_Ordered(recommendedSet, studentProfile, reqs, order) ==
    FAdd(FMul(Fl(Rat(6, 10)),
              Fl(CompetencyProgress(recommendedSet, studentProfile, reqs))),
         FMul(Fl(Rat(4, 10)),
              DistributionProgress_Ordered(recommendedSet, studentProfile, reqs, order)))

EvaluateRecommendationSet_Ordered(recommendedSet, studentProfile, reqs, order) ==
    LET skillCoverage == Fl(CalculateSkillCoverage(recommendedSet, studentProfile, reqs))
        prereqCompliance ==
            Fl(CalculatePrerequisiteCompliance(recommendedSet, studentProfile))
        programProgressFit ==
            CalculateProgramProgressFit_Ordered(recommendedSet, studentProfile, reqs, order)
    IN  [GoodnessScore |->
             FAdd(FAdd(FMul(Fl(Rat(3, 10)), skillCoverage),
                       FMul(Fl(Rat(3, 10)), prereqCompliance)),
                  FMul(Fl(Rat(4, 10)), programProgressFit)),
         SkillCoveragePercentage |-> skillCoverage,
         PrerequisiteCompliance |-> prereqCompliance,
         ProgramProgressFit |-> programProgressFit]

MaxSelected == 3

SelectedIds == <<"E1", "E2", "E3", "E4", "E5">>

SelectedCourse(i, subdomain, credits) ==
    [Course |-> ServiceCourse(SelectedIds[i], subdomain, credits, <<>>,
                              IF subdomain = "AI" THEN <<"B">> ELSE <<>>),
     FitScore |-> Rat(1, 2)]

RECURSIVE SelectionsOfLen(_)
SelectionsOfLen(n) ==
    IF n = 0 THEN {<<>>}
    ELSE {Append(front, SelectedCourse(n, subdomain, credits)) :
             front \in SelectionsOfLen(n - 1),
             subdomain \in {"AI", "SE", "Math"}, credits \in {3, 6, 9}}

Selections == UNION {SelectionsOfLen(n) : n \in 0..MaxSelected}

InitEvaluate ==
    /\ pc = "selected"
    /\ selectedCourses \in Selections
    /\ \E required \in {<<>>, <<"B">>} :
          /\ profile = [OptimizerProfile EXCEPT !.RequiredCompetencies = required,
                                                !.DistributionCredits = EmptyMap]
          /\ requirements = ServiceRequirements(profile)
    /\ scoredCourses = <<>> /\ maxCreditLoad = 60
    /\ algorithm = "creditCap" /\ metrics = NoMetrics
    /\ IdlePrereq /\ IdleFilter /\ IdleScoring /\ IdleLater

\* Step 8 of GenerateRecommendations.
EvaluateOnce ==
    /\ pc = "selected"
    /\ \E order \in RangeOrders(requirements.DistributionRequirements) :
          metrics' = EvaluateRecommendationSet_Ordered(selectedCourses, profile,
                                                        requirements, order)
    /\ pc' = "evaluatedOnce"
    /\ UNCHANGED <<profile, requirements, scoredCourses, maxCreditLoad, selectedCourses,
                   algorithm, prereqVars, filterVars, checkedCourse, scores, laterVars>>

\* The same call again, on what the first call left.
EvaluateAgain ==
    /\ pc = "evaluatedOnce"
    /\ \E order \in RangeOrders(requirements.DistributionRequirements) :
          metrics' = EvaluateRecommendationSet_Ordered(selectedCourses, profile,
                                                        requirements, order)
    /\ pc' = "evaluatedTwice"
    /\ UNCHANGED <<profile, requirements, scoredCourses, maxCreditLoad, selectedCourses,
                   algorithm, prereqVars, filterVars, checkedCourse, scores, laterVars>>

NextEvaluate == EvaluateOnce \/ EvaluateAgain

SpecEvaluate == InitEvaluate /\ [][NextEvaluate]_vars

-----------------------------------------------------------------------------
(* Claims checked under SpecEvaluate.                                      *)

\* C15: EvaluateRecommendationSet is idempotent and pure: evaluating the
\* same selection twice returns the same metrics, and the selection, the
\* profile and the requirements are unchanged by the call.
C15_Idempotent ==
    [][(pc = "evaluatedOnce" /\ pc' = "evaluatedTwice") =>
          /\ metrics' = metrics
          /\ selectedCourses' = selectedCourses
          /\ profile' = profile
          /\ requirements' = requirements]_vars

\* The part of C15 that holds: no call changes its arguments.
EvaluatePure ==
    [][/\ selectedCourses' = selectedCourses
       /\ profile' = profile
       /\ requirements' = requirements]_vars

-----------------------------------------------------------------------------
(* Specification SpecAggregate: fetchAllCompletedIdentityCodes of part_005 *)
(* with its goroutines.  The caller writes the profile's markers, starts   *)
(* one goroutine per semester and waits on the WaitGroup.  A goroutine     *)
(* fetches its semester's cards, and if the fetch succeeded takes the      *)
(* mutex and writes the cards' markers, one map assignment after the       *)
(* other; its deferred calls release the mutex and then signal the         *)
(* WaitGroup.  A map assignment takes time: it begins and it ends.         *)

MaxTerms == 2

TermNames == <<Sem_S1, Sem_F1, Sem_s1>>

Terms == {TermNames[i] : i \in 1..MaxTerms}

SecondSemesterCard ==
    [CourseCode |-> Code_CS2, CompetencyID |-> Id_2, TemplateID |-> Template_1,
     CourseName |-> <<>>]

TermOutcomes ==
    {[err |-> TRUE, cards |-> <<>>],
     [err |-> FALSE, cards |-> <<SemesterCard>>],
     [err |-> FALSE, cards |-> <<SecondSemesterCard, SemesterCard>>]}

\* What GetSemesterCompetencies returns, for each semester of the profile.
AggregateFetches == UNION {[ts -> TermOutcomes] : ts \in SUBSET Terms}

AggregateProfiles == {EmptyProfile} \cup {ProfileOf(<<card>>) : card \in HistoryCards}

\* Step 1 of the function: the markers of the profile's completed courses.
ProfileMarkers(prof, map) ==
    UNION {{normalizeCode(c)} \cup
           (IF normalizeCode(c) \in DOMAIN map
                THEN {normalizeCode(map[normalizeCode(c)])} ELSE {}) :
           c \in Range(prof.CompletedCourses)}

\* The keys one iteration of the merge loop assigns, in the order of the code.
CardWrites(card, map) ==
    <<normalizeCode(card.CourseCode), normalizeCode(card.CompetencyID)>>
        \o (IF card.TemplateID # <<>> THEN <<normalizeCode(card.TemplateID)>> ELSE <<>>)
        \o (IF card.CourseName # <<>> THEN <<NameMarker(card.CourseName)>> ELSE <<>>)
        \o (IF normalizeCode(card.CourseCode) \in DOMAIN map
                THEN <<normalizeCode(map[normalizeCode(card.CourseCode)])>> ELSE <<>>)

RECURSIVE TaskWrites(_, _)
TaskWrites(cs, map) ==
    IF cs = <<>> THEN <<>> ELSE CardWrites(Head(cs), map) \o TaskWrites(Tail(cs), map)

aggregateFrame ==
    <<profile, requirements, optimizerVars, prereqVars, filterVars, checkedCourse,
      scores, scored, serviceVars, handlerVars, offlineVars>>

InitAggregate ==
    /\ pc = "start"
    /\ profile \in AggregateProfiles
    /\ \E file \in IdentityFiles : idMap = loadIdentityMap(file)
    /\ semesterCards \in AggregateFetches
    /\ profile = EmptyProfile => semesterCards = EmptyMap
    /\ tasks = [t \in DOMAIN semesterCards |-> [pc |-> "unborn", next |-> 1]]
    /\ mutex = {} /\ wg = 0 /\ completed = {}
    /\ requirements = OptimizerRequirements(<<>>)
    /\ catalog = <<>> /\ constraints = NoConstraints /\ semester = <<>>
    /\ candidates = <<>> /\ handler = "part005"
    /\ scored = <<>>
    /\ IdleOptimizer /\ IdlePrereq /\ IdleScoring /\ IdleService /\ IdleHandler
    /\ IdleOffline

\* "1. Codes from main profile": before any goroutine exists.
ProfileCodes ==
    /\ pc = "start"
    /\ completed' = completed \cup ProfileMarkers(profile, idMap)
    /\ pc' = "spawning"
    /\ UNCHANGED <<tasks, mutex, wg, aggregateFrame>>

\* One iteration of the loop over uniqueSemesters: wg.Add(1); go func(...).
Spawn(t) ==
    /\ pc = "spawning"
    /\ tasks[t].pc = "unborn"
    /\ wg' = wg + 1
    /\ tasks' = [tasks EXCEPT ![t].pc = "fetching"]
    /\ UNCHANGED <<pc, mutex, completed, aggregateFrame>>

\* The loop is over; the caller reaches wg.Wait().
SpawnedAll ==
    /\ pc = "spawning"
    /\ \A t \in DOMAIN tasks : tasks[t].pc # "unborn"
    /\ pc' = "waiting"
    /\ UNCHANGED <<tasks, mutex, wg, completed, aggregateFrame>>

\* wg.Wait() returning although goroutines are still running.
Wait_NoBarrier ==
    /\ pc = "waiting"
    /\ pc' = "returned"
    /\ UNCHANGED <<tasks, mutex, wg, completed, aggregateFrame>>

\* wg.Wait() returns once the counter is zero; the function returns completed.
Wait ==
    /\ pc = "waiting"
    /\ wg = 0
    /\ pc' = "returned"
    /\ UNCHANGED <<tasks, mutex, wg, completed, aggregateFrame>>

\* GetSemesterCompetencies returns: with an error the goroutine returns,
\* without one it goes for the mutex.
FetchReturn(t) ==
    /\ tasks[t].pc = "fetching"
    /\ tasks' = [tasks EXCEPT ![t].pc =
                    IF semesterCards[t].err THEN "exiting" ELSE "locking"]
    /\ UNCHANGED <<pc, mutex, wg, completed, aggregateFrame>>

\* mu.Lock() that does not wait for the mutex to be free.
Lock_NoWait(t) ==
    /\ tasks[t].pc = "locking"
    /\ mutex' = mutex \cup {t}
    /\ tasks' = [tasks EXCEPT ![t].pc = "merging"]
    /\ UNCHANGED <<pc, wg, completed, aggregateFrame>>

\* mu.Lock().
Lock(t) ==
    /\ tasks[t].pc = "locking"
    /\ mutex = {}
    /\ mutex' = {t}
    /\ tasks' = [tasks EXCEPT ![t].pc = "merging"]
    /\ UNCHANGED <<pc, wg, completed, aggregateFrame>>

\* completed[key] = true, begun ...
BeginWrite(t) ==
    /\ tasks[t].pc = "merging"
    /\ tasks[t].next <= Len(TaskWrites(semesterCards[t].cards, idMap))
    /\ tasks' = [tasks EXCEPT ![t].pc = "writing"]
    /\ UNCHANGED <<pc, mutex, wg, completed, aggregateFrame>>

\* ... and finished.
EndWrite(t) ==
    /\ tasks[t].pc = "writing"
    /\ completed' = completed \cup
                        {TaskWrites(semesterCards[t].cards, idMap)[tasks[t].next]}
    /\ tasks' = [tasks EXCEPT ![t].pc = "merging", ![t].next = @ + 1]
    /\ UNCHANGED <<pc, mutex, wg, aggregateFrame>>

\* The loop over the cards is over: the deferred mu.Unlock().
Unlock(t) ==
    /\ tasks[t].pc = "merging"
    /\ tasks[t].next > Len(TaskWrites(semesterCards[t].cards, idMap))
    /\ mutex' = mutex \ {t}
    /\ tasks' = [tasks EXCEPT ![t].pc = "exiting"]
    /\ UNCHANGED <<pc, wg, completed, aggregateFrame>>

\* The deferred wg.Done().
Exit(t) ==
    /\ tasks[t].pc = "exiting"
    /\ wg' = wg - 1
    /\ tasks' = [tasks EXCEPT ![t].pc = "done"]
    /\ UNCHANGED <<pc, mutex, completed, aggregateFrame>>

NextAggregate ==
    \/ ProfileCodes
    \/ SpawnedAll
    \/ Wait
    \/ \E t \in DOMAIN tasks :
          \/ Spawn(t) \/ FetchReturn(t) \/ Lock(t) \/ BeginWrite(t)
          \/ EndWrite(t) \/ Unlock(t) \/ Exit(t)

SpecAggregate == InitAggregate /\ [][NextAggregate]_vars

-----------------------------------------------------------------------------
(* Claims checked under SpecAggregate.                                     *)

Writing == {t \in DOMAIN tasks : tasks[t].pc = "writing"}

\* C13: in every interleaving of the per-term tasks at most one task at a
\* time writes to the shared completed-marker map; every write made by a
\* task happens while that task holds the mutex; and the mutex is held only
\* during the merge step, never while a term fetch of the holder is in
\* progress (the caller's own writes are over before the first task starts).
C13_WritesUnderMutex ==
    /\ Cardinality(Writing) <= 1
    /\ \A t \in Writing : mutex = {t}
    /\ \A t \in mutex : tasks[t].pc \in {"merging", "writing"}
    /\ pc = "start" => \A t \in DOMAIN tasks : tasks[t].pc = "unborn"

\* One task in the middle of a map assignment while another has its cards
\* and is blocked on the mutex.
C13_Witness ==
    \E t, u \in DOMAIN tasks :
        /\ t # u
        /\ tasks[t].pc = "writing" /\ mutex = {t}
        /\ tasks[u].pc = "locking"

\* C14: for every interleaving of the per-term tasks and every subset of
\* term fetches that fail, fetchAllCompletedIdentityCodes returns only
\* after every task has finished, and the returned set equals the markers
\* from the profile united with the markers of every term whose fetch
\* succeeded; a failed fetch removes nothing and does not abort the
\* aggregation.
C14_PartialDataTolerance ==
    pc = "returned" =>
        /\ \A t \in DOMAIN tasks : tasks[t].pc = "done"
        /\ wg = 0 /\ mutex = {}
        /\ completed =
              ProfileMarkers(profile, idMap) \cup
              UNION {UNION {CardMarkers(semesterCards[t].cards[i], idMap) :
                            i \in 1..Len(semesterCards[t].cards)} :
                     t \in {x \in DOMAIN semesterCards : ~semesterCards[x].err}}

\* Returned with one term failed and another merged on top of the profile's
\* markers.
C14_Witness ==
    /\ pc = "returned"
    /\ \E t, u \in DOMAIN tasks :
          /\ semesterCards[t].err
          /\ ~semesterCards[u].err
          /\ CardMarkers(semesterCards[u].cards[1], idMap) \subseteq completed
          /\ ~(CardMarkers(semesterCards[u].cards[1], idMap)
                  \subseteq ProfileMarkers(profile, idMap))
    /\ ProfileMarkers(profile, idMap) # {}
    /\ ProfileMarkers(profile, idMap) \subseteq completed

-----------------------------------------------------------------------------
(* Specification SpecSparse: the scoring, optimization and evaluation      *)
(* functions on sparse data.  The requirements are built the way           *)
(* handleRecommendations of part_005 builds them and the catalog holds at  *)
(* most one eligible course; the selection is evaluated as in step 8 of    *)
(* GenerateRecommendations.  The scoring functions are those of            *)
(* recommender.go, which read profile.TotalCredits as the earned credits;  *)
(* `required` is the Required part of the graduation status, 0 when the    *)
(* status was unavailable.                                                 *)

\* part_005: no distribution requirements, the total taken from the profile.
Part005Requirements(prof, required) ==
    [RequiredCompetencies |-> prof.RequiredCompetencies,
     DistributionRequirements |-> EmptyMap,
     TotalCreditsRequired |-> required]

SparseProfiles ==
    {[Competencies |-> comps, CompletedCourses |-> <<>>,
      DistributionCredits |-> EmptyMap, RequiredCompetencies |-> required,
      TotalCredits |-> earned, InterestWeights |-> EmptyMap] :
        comps \in {EmptyMap, [k \in {"A"} |-> 3]},
        required \in {<<>>, <<"B">>},
        earned \in {0, 30}}

TotalRequiredChoices == {0, 120}

InitSparse ==
    /\ pc = "candidate"
    /\ checkedCourse \in ScoredCourseChoices
    /\ candidates \in {<<>>, <<checkedCourse>>}
    /\ profile \in SparseProfiles
    /\ \E required \in TotalRequiredChoices :
          requirements = Part005Requirements(profile, required)
    /\ maxCreditLoad \in {0, 60}
    /\ scoredCourses = <<>> /\ selectedCourses = <<>>
    /\ algorithm = "none" /\ metrics = NoMetrics
    /\ scores = NoScores
    /\ catalog = <<>> /\ constraints = NoConstraints /\ idMap = EmptyMap
    /\ semesterCards = EmptyMap /\ semester = <<>> /\ handler = "part005"
    /\ IdlePrereq /\ IdleLater

\* The scoring loop of the handler (no course, no call).
ScorePart005 ==
    /\ pc = "candidate"
    /\ scores' = IF candidates = <<>> THEN NoScores
                 ELSE ScoreCourse(checkedCourse, profile, requirements,
                                  Rat(1, 5), Rat(3, 5), Rat(1, 5))
    /\ scoredCourses' =
           [i \in 1..Len(candidates) |->
               [Course |-> candidates[i], FitScore |-> scores'.FitScore]]
    /\ pc' = "ranked"
    /\ UNCHANGED <<profile, requirements, maxCreditLoad, selectedCourses, algorithm,
                   metrics, prereqVars, filterVars, checkedCourse, laterVars>>

NextSparse ==
    ScorePart005 \/ OptimizeCreditCap \/ OptimizePriority \/ OptimizeMarginal \/ Evaluate

SpecSparse == InitSparse /\ [][NextSparse]_vars

-----------------------------------------------------------------------------
(* Claims checked under SpecSparse.                                        *)

\* Neither NaN nor an infinity.
Defined(x) == IsFinite(x)

\* C17: scoring, optimization and evaluation are total on sparse data: with
\* empty competencies, empty required competencies, no distribution
\* requirement or credits for a subdomain, an empty candidate list, or a
\* profile whose graduation status was unavailable (total required credits
\* 0), no operation yields an undefined value: every sub-score, fit score
\* and metric is a number, an empty candidate list gives an empty selection,
\* and an empty selection is fully compliant.
C17_TotalOnSparseData ==
    /\ pc # "candidate" =>
          /\ Defined(scores.CompetencyMatchScore)
          /\ Defined(scores.InterestAlignmentScore)
          /\ Defined(scores.ProgramProgressScore)
          /\ Defined(scores.FitScore)
    /\ pc \in {"optimized", "evaluated"} =>
          (scoredCourses = <<>> => selectedCourses = <<>>)
    /\ pc = "evaluated" =>
          /\ Defined(metrics.GoodnessScore)
          /\ Defined(metrics.SkillCoveragePercentage)
          /\ Defined(metrics.PrerequisiteCompliance)
          /\ Defined(metrics.ProgramProgressFit)
          /\ selectedCourses = <<>> => metrics.PrerequisiteCompliance = R(1)

\* The same with a graduation status on record: what holds of the code.
SparseButGraduationKnown ==
    requirements.TotalCreditsRequired > 0 => C17_TotalOnSparseData

-----------------------------------------------------------------------------
(* Specification SpecHandler: the handleRecommendations snapshots, from    *)
(* the decoded request to the response.  The profile, the catalog and the  *)
(* ranked candidates do not depend on the requested credit load; they are  *)
(* taken as fetched and scored.  main.go and part_004 hand the request to  *)
(* GenerateRecommendations, part_003 and part_005 call OptimizeCourseSet   *)
(* themselves and answer with a fixed goodness score.                      *)

HandlerRequests ==
    {[StudentID |-> id, Semester |-> term, MaxCreditLoad |-> load] :
        id \in {"", "s1"}, term \in {"", "S1"}, load \in {0, 30, 60, 70}}

HandlerCandidates == {s \in RankedLists : Len(s) <= 2}

InitHandler ==
    /\ pc = "request"
    /\ request \in HandlerRequests
    /\ scoredCourses \in HandlerCandidates
    /\ profile = OptimizerProfile
    /\ requirements = OptimizerRequirements(<<>>)
    /\ maxCreditLoad = 0 /\ selectedCourses = <<>>
    /\ algorithm = "none" /\ metrics = NoMetrics
    /\ scored = <<>>
    /\ IdlePrereq /\ IdleFilter /\ IdleScoring /\ IdleService /\ IdleAggregate
    /\ IdleOffline

handlerFrame ==
    <<profile, requirements, scoredCourses, prereqVars, catalog, constraints, idMap,
      semesterCards, semester, candidates, checkedCourse, scores, scored, upstream,
      stages, aggregateVars, request, offlineVars>>

\* sendError(...); return.
Reject(code) ==
    /\ response' = ErrorResponse(code)
    /\ UNCHANGED <<maxCreditLoad, selectedCourses, algorithm, metrics>>

SuccessResult(selected, m, coverage) ==
    [result |-> [isNil |-> FALSE, RecommendedSet |-> selected,
                 TotalCredits |-> calculateTotalCredits(selected), Metrics |-> m,
                 DistributionCoverage |-> coverage, Status |-> "success"],
     err |-> ""]

\* service.GenerateRecommendations(&req), steps 7 to 9.
RunService(load) ==
    /\ maxCreditLoad' = load
    /\ algorithm' = "creditCap"
    /\ selectedCourses' =
           OptimizeCourseSet_CreditCap(scoredCourses, profile, requirements, load)
    /\ metrics' = EvaluateRecommendationSet(selectedCourses', profile, requirements)
    /\ response' = SuccessResult(selectedCourses', metrics',
                                 calculateDistributionCoverage(selectedCourses'))

\* OptimizeCourseSet(scoredCourses, profile, requirements, req.MaxCreditLoad)
\* called by the handler, in any of its snapshots, and the response built.
RunInline(load) ==
    /\ maxCreditLoad' = load
    /\ \/ /\ algorithm' = "creditCap"
          /\ selectedCourses' =
                 OptimizeCourseSet_CreditCap(scoredCourses, profile, requirements, load)
       \/ /\ algorithm' = "priority"
          /\ selectedCourses' =
                 OptimizeCourseSet_Priority(scoredCourses, profile, requirements, load)
       \/ /\ algorithm' = "marginal"
          /\ selectedCourses' =
                 OptimizeCourseSet_Marginal(scoredCourses, profile, requirements, load)
    /\ metrics' = [NoMetrics EXCEPT !.GoodnessScore = Rat(85, 100)]
    /\ response' = SuccessResult(selectedCourses', metrics', EmptyMap)

\* main.go.
HandleMain ==
    /\ pc = "request"
    /\ handler' = "main"
    /\ IF request.StudentID = "" \/ request.Semester = ""
           THEN Reject("MISSING_REQUIRED_FIELD")
           ELSE RunService(IF request.MaxCreditLoad = 0 THEN 60
                           ELSE request.MaxCreditLoad)
    /\ pc' = "responded"
    /\ UNCHANGED handlerFrame

\* part_004.
HandlePart004 ==
    /\ pc = "request"
    /\ handler' = "part004"
    /\ IF request.MaxCreditLoad > 60 THEN Reject("CREDIT_OVERLOAD")
       ELSE IF request.Semester = "" THEN Reject("MISSING_REQUIRED_FIELD")
       ELSE RunService(IF request.MaxCreditLoad = 0 THEN 60 ELSE request.MaxCreditLoad)
    /\ pc' = "responded"
    /\ UNCHANGED handlerFrame

\* part_003.
HandlePart003 ==
    /\ pc = "request"
    /\ handler' = "part003"
    /\ IF request.MaxCreditLoad > 60 THEN Reject("CREDIT_OVERLOAD")
       ELSE RunInline(request.MaxCreditLoad)
    /\ pc' = "responded"
    /\ UNCHANGED handlerFrame

\* part_005.
HandlePart005 ==
    /\ pc = "request"
    /\ handler' = "part005"
    /\ RunInline(request.MaxCreditLoad)
    /\ pc' = "responded"
    /\ UNCHANGED handlerFrame

NextHandler == HandleMain \/ HandlePart004 \/ HandlePart003 \/ HandlePart005

SpecHandler == InitHandler /\ [][NextHandler]_vars

-----------------------------------------------------------------------------
(* Claims checked under SpecHandler.                                       *)

OptimizerInvoked == pc = "responded" /\ algorithm # "none"

\* C18: whenever a recommendation request leaves the max credit load unset
\* (0), the handler replaces it with the default ceiling (60) before the
\* optimizer is invoked, so the optimizer is never run with a ceiling of 0
\* for such a request.
C18_DefaultCeiling ==
    (OptimizerInvoked /\ request.MaxCreditLoad = 0) => maxCreditLoad = 60

\* What holds: the handlers that go through GenerateRecommendations apply
\* the default.
DefaultAppliedBeforeService ==
    handler \in {"main", "part004"} => C18_DefaultCeiling

-----------------------------------------------------------------------------
(* Specification SpecOffline: the evaluation loop of                       *)
(* EvaluateAllStudentsFromSQLite (part_000) for one student.  truth holds  *)
(* the competency codes of the student's student_test rows, in row order;  *)
(* rec is the student's recommendation list, whose entries are pairwise    *)
(* different strings.  Codes are sequences of characters.                  *)

MaxTruth == 2
MaxRecommended == 2

\* Codes as stored: "A", the same with a trailing blank, and "B".
Code_A  == <<"A">>
Code_A_ == <<"A", " ">>
Code_B  == <<"B">>

StoredCodes == {Code_A, Code_A_, Code_B}

RECURSIVE CodeListsOfLen(_)
CodeListsOfLen(n) ==
    IF n = 0 THEN {<<>>}
    ELSE {Append(front, code) : front \in CodeListsOfLen(n - 1), code \in StoredCodes}

\* Every student in testTruth has at least one row.
TruthLists == UNION {CodeListsOfLen(n) : n \in 1..MaxTruth}

\* `selected` of the recommendation loop: no string twice (the used map).
RecommendationLists ==
    {s \in UNION {CodeListsOfLen(n) : n \in 0..MaxRecommended} :
        \A i, j \in 1..Len(s) : i # j => s[i] # s[j]}

\* intersectionCount(a, b): the entries of b whose trimmed form is the
\* trimmed form of some entry of a.
intersectionCount(a, b) ==
    LET set == {TrimSpace(a[i]) : i \in 1..Len(a)}
    IN  Cardinality({j \in 1..Len(b) : TrimSpace(b[j]) \in set})

InitOffline ==
    /\ pc = "recommended"
    /\ \E truth \in TruthLists, rec \in RecommendationLists :
          offline = [truth |-> truth, rec |-> rec, correct |-> 0, acc |-> R(0)]
    /\ profile = OptimizerProfile
    /\ requirements = OptimizerRequirements(<<>>)
    /\ scored = <<>>
    /\ IdleOptimizer /\ IdlePrereq /\ IdleFilter /\ IdleScoring /\ IdleService
    /\ IdleAggregate /\ IdleHandler

\* One iteration of the loop over testTruth.
MeasureStudent ==
    /\ pc = "recommended"
    /\ LET correct == intersectionCount(offline.truth, offline.rec)
       IN  offline' = [offline EXCEPT
                          !.correct = correct,
                          !.acc = IF Len(offline.truth) > 0
                                      THEN Div(R(correct), R(Len(offline.truth)))
                                      ELSE R(0)]
    /\ pc' = "accuracy"
    /\ UNCHANGED <<profile, requirements, optimizerVars, prereqVars, filterVars,
                   checkedCourse, scores, scored, serviceVars, aggregateVars,
                   handlerVars>>

NextOffline == MeasureStudent

SpecOffline == InitOffline /\ [][NextOffline]_vars

-----------------------------------------------------------------------------
(* Claims checked under SpecOffline.                                       *)

\* The held-out rows whose code, blanks aside, is among the recommended ones.
HeldOutRecommended ==
    {i \in 1..Len(offline.truth) :
        \E j \in 1..Len(offline.rec) :
            TrimSpace(offline.rec[j]) = TrimSpace(offline.truth[i])}

\* C19: in the offline evaluation, for every student with held-out records
\* the reported accuracy equals (number of held-out competency codes that
\* were recommended) / (number of held-out codes) and lies in [0,1]; a
\* student with no recommendations gets accuracy 0.
C19_Accuracy ==
    pc = "accuracy" =>
        /\ offline.acc = Div(R(Cardinality(HeldOutRecommended)), R(Len(offline.truth)))
        /\ InUnit(offline.acc)
        /\ offline.rec = <<>> => offline.acc = R(0)

NoRepeats(s) ==
    \A i, j \in 1..Len(s) : i # j => TrimSpace(s[i]) # TrimSpace(s[j])

\* What holds: the same when no code occurs twice, blanks aside, among the
\* held-out rows or among the recommendations.
AccuracyWithoutRepeats ==
    (NoRepeats(offline.truth) /\ NoRepeats(offline.rec)) => C19_Accuracy

-----------------------------------------------------------------------------
(* SpecPriority: OptimizeCourseSet of src/unnamed/part_001 on ranked lists  *)
(* in which a course may occur more than once, long enough for more than    *)
(* TargetPriorityCount matching candidates.  The requirements list the      *)
(* entries "G1" (a course code), "id-2" (a course id) and "B" (a            *)
(* competency).                                                             *)

MaxRanked == 5

PriorityRequired == <<"G1", "id-2", "B">>

PriorityCourse(id, code, credits, teaches) ==
    [CourseID |-> id, CourseCode |-> code, CreditHours |-> credits,
     SubdomainID |-> "AI", RequiredCompetencies |-> EmptyMap,
     TeachesCompetencies |-> teaches, Prerequisites |-> <<>>]

\* Matches by code, by id, by a taught competency (twice), and not at all.
PriorityCourses ==
    {PriorityCourse("k1", "G1", 20, <<>>),
     PriorityCourse("id-2", "X2", 30, <<>>),
     PriorityCourse("k3", "X3", 10, <<"Z", "B">>),
     PriorityCourse("k5", "X5", 40, <<"B">>),
     PriorityCourse("k6", "X6", 10, <<"Z">>)}

\* The candidate at rank n carries fit score 1 - n/10: the list is sorted by
\* FitScore, highest first (service.go:148).
RECURSIVE PriorityListsOfLen(_)
PriorityListsOfLen(n) ==
    IF n = 0 THEN {<<>>}
    ELSE {Append(front, [Course |-> c, FitScore |-> Rat(10 - n, 10)]) :
              front \in PriorityListsOfLen(n - 1), c \in PriorityCourses}

PriorityLists == UNION {PriorityListsOfLen(n) : n \in 0..MaxRanked}

PriorityLoadChoices == {30, 60, 100}

InitPriority ==
    /\ pc = "ranked"
    /\ scoredCourses \in PriorityLists
    /\ maxCreditLoad \in PriorityLoadChoices
    /\ requirements = OptimizerRequirements(PriorityRequired)
    /\ profile = [OptimizerProfile EXCEPT !.RequiredCompetencies = PriorityRequired]
    /\ selectedCourses = <<>>
    /\ algorithm = "none"
    /\ metrics = NoMetrics
    /\ IdlePrereq /\ IdleFilter /\ IdleScoring /\ IdleLater

NextPriority == OptimizePriority

SpecPriority == InitPriority /\ [][NextPriority]_vars

\* The candidates at the ranks in I, in rank order.
RECURSIVE TakeRanks(_, _)
TakeRanks(courses, I) ==
    IF courses = <<>> THEN <<>>
    ELSE LET n    == Len(courses)
             rest == TakeRanks(SubSeq(courses, 1, n - 1), I)
         IN  IF n \in I THEN Append(rest, courses[n]) ELSE rest

\* The picks made before rank k, when I are the ranks picked.
PickedBefore(I, k) == TakeRanks(scoredCourses, {i \in I : i < k})

OverTarget(I, k) ==
    calculateTotalCredits(PickedBefore(I, k)) + scoredCourses[k].Course.CreditHours
        > maxCreditLoad

AlreadyPicked(I, k) ==
    \E i \in I : i < k /\ scoredCourses[i].Course.CourseID = scoredCourses[k].Course.CourseID

\* I are the ranks of the first candidates, in rank order, that match a
\* requirement, fit under the target and are not yet picked, up to three.
FirstEligible(I) ==
    \A k \in 1..Len(scoredCourses) :
        k \in I <=> /\ Matches(scoredCourses[k])
                    /\ Cardinality({i \in I : i < k}) < 3
                    /\ ~OverTarget(I, k)
                    /\ ~AlreadyPicked(I, k)

Phase1Picks == PriorityPicks(scoredCourses, requirements, maxCreditLoad).selectedCourses

Phase1Done == pc = "optimized" /\ algorithm = "priority"

\* C20: phase 1 of the optimizer selects at most 3 courses; each matches an
\* entry of the required competencies (the still-missing set) by its course
\* code, its course id or a competency it teaches; a candidate is skipped,
\* without counting toward the 3, when adding its credit hours would exceed
\* the target credit load or when it is already selected; the picks are the
\* first such candidates in rank order, and they open the returned selection.
C20_PriorityPhase ==
    Phase1Done =>
        /\ Len(Phase1Picks) <= 3
        /\ \A k \in 1..Len(Phase1Picks) :
              LET c == Phase1Picks[k].Course
                  required == Range(requirements.RequiredCompetencies)
              IN  \/ c.CourseCode \in required
                  \/ c.CourseID \in required
                  \/ Range(c.TeachesCompetencies) \cap required # {}
        /\ calculateTotalCredits(Phase1Picks) <= maxCreditLoad
        /\ \A i, j \in 1..Len(Phase1Picks) :
              i # j => Phase1Picks[i].Course.CourseID # Phase1Picks[j].Course.CourseID
        /\ \E I \in SUBSET (1..Len(scoredCourses)) :
              FirstEligible(I) /\ Phase1Picks = TakeRanks(scoredCourses, I)
        /\ Len(Phase1Picks) <= Len(selectedCourses)
        /\ SubSeq(selectedCourses, 1, Len(Phase1Picks)) = Phase1Picks

\* Three picks were made after one matching candidate was skipped because it
\* was already selected and another because it would exceed the target, and
\* neither skip counted toward the three.
C20_Witness ==
    /\ Phase1Done
    /\ Len(Phase1Picks) = 3
    /\ \E I \in SUBSET (1..Len(scoredCourses)) :
          /\ FirstEligible(I)
          /\ \E k, l \in 1..Len(scoredCourses) :
                /\ k \notin I /\ l \notin I
                /\ \E i \in I : i > k /\ i > l
                /\ Matches(scoredCourses[k]) /\ AlreadyPicked(I, k) /\ ~OverTarget(I, k)
                /\ Matches(scoredCourses[l]) /\ OverTarget(I, l) /\ ~AlreadyPicked(I, l)

\* A fourth matching candidate that fits and is not yet selected is left to
\* the fill phase.
FourthMatchLeftOut ==
    /\ Phase1Done
    /\ Len(Phase1Picks) = 3
    /\ \E I \in SUBSET (1..Len(scoredCourses)) :
          /\ FirstEligible(I)
          /\ \E k \in 1..Len(scoredCourses) :
                /\ k \notin I /\ Matches(scoredCourses[k])
                /\ ~OverTarget(I, k) /\ ~AlreadyPicked(I, k)

-----------------------------------------------------------------------------
(* SpecFill: the three snapshots of OptimizeCourseSet on longer ranked     *)
(* lists: a head of up to MaxHead candidates of mixed credit hours and     *)
(* areas, followed by up to MaxTail candidates of one kind.  The tail      *)
(* either holds different courses or the same course again and again (a    *)
(* catalog assembled from several subdomains, part_006:91-103, is not      *)
(* de-duplicated).                                                         *)

MaxHead == 3
MaxTail == 8

FillIds == <<"F1", "F2", "F3", "F4", "F5", "F6", "F7", "F8", "F9", "F10",
             "F11", "F12", "F13", "F14">>

FillKind(subdomain, credits, teaches) ==
    [subdomain |-> subdomain, credits |-> credits, teaches |-> teaches]

HeadKinds == {FillKind("AI", 1, <<>>), FillKind("AI", 10, <<"B">>),
              FillKind("SE", 10, <<>>), FillKind("AI", 0, <<>>)}

TailKinds == {FillKind("AI", 1, <<>>), FillKind("AI", 10, <<>>)}

\* The candidate at rank n carries fit score 1 - n/100: the list is sorted by
\* FitScore, highest first (service.go:148).
FillCandidate(n, id, kind) ==
    [Course |-> [CourseID |-> id, CourseCode |-> id, CreditHours |-> kind.credits,
                 SubdomainID |-> kind.subdomain, RequiredCompetencies |-> EmptyMap,
                 TeachesCompetencies |-> kind.teaches, Prerequisites |-> <<>>],
     FitScore |-> Rat(100 - n, 100)]

RECURSIVE HeadsOfLen(_)
HeadsOfLen(n) ==
    IF n = 0 THEN {<<>>}
    ELSE {Append(front, FillCandidate(n, FillIds[n], kind)) :
              front \in HeadsOfLen(n - 1), kind \in HeadKinds}

\* k candidates of one kind after a head of h candidates.
TailOf(h, k, kind, repeated) ==
    [j \in 1..k |->
        FillCandidate(h + j, IF repeated THEN FillIds[h + 1] ELSE FillIds[h + j], kind)]

FillLists ==
    {head \o TailOf(Len(head), k, kind, repeated) :
        head \in UNION {HeadsOfLen(n) : n \in 0..MaxHead},
        k \in 0..MaxTail, kind \in TailKinds, repeated \in BOOLEAN}

FillLoadChoices == {30, 60, 70}

InitFill ==
    /\ pc = "ranked"
    /\ scoredCourses \in FillLists
    /\ maxCreditLoad \in FillLoadChoices
    /\ requirements = OptimizerRequirements(<<"B">>)
    /\ profile = [OptimizerProfile EXCEPT !.RequiredCompetencies = <<"B">>]
    /\ selectedCourses = <<>>
    /\ algorithm = "none"
    /\ metrics = NoMetrics
    /\ IdlePrereq /\ IdleFilter /\ IdleScoring /\ IdleLater

NextFill == OptimizeCreditCap \/ OptimizePriority \/ OptimizeMarginal

SpecFill == InitFill /\ [][NextFill]_vars

\* Number of courses of one subdomain in a selection.
CountIn(courses, subdomain) ==
    Cardinality({i \in 1..Len(courses) : courses[i].Course.SubdomainID = subdomain})

SubdomainsOf(courses) == {courses[i].Course.SubdomainID : i \in 1..Len(courses)}

\* What the marginal-value snapshot has selected when its fill phase ends.
MarginalFilled == MarginalFill(scoredCourses, profile, requirements, maxCreditLoad)

NoFallback == algorithm # "marginal" \/ MarginalFilled.totalCredits >= MinCredits

\* C21: the greedy fill never accepts a candidate whose subdomain has already
\* reached the diversity cap: in a selection produced without the credit-floor
\* fallback, and in what the fill phase hands to the fallback, no subdomain
\* has more than 3 courses (marginal-value snapshot) or more than 10 courses
\* (credit-cap and priority-plus-fill snapshots).
C21_DiversityCap ==
    /\ (pc = "optimized" /\ NoFallback) =>
          \A s \in SubdomainsOf(selectedCourses) :
              CountIn(selectedCourses, s) <= IF algorithm = "marginal" THEN 3 ELSE 10
    /\ \A s \in SubdomainsOf(MarginalFilled.selectedCourses) :
          CountIn(MarginalFilled.selectedCourses, s) <= 3

\* The marginal-value snapshot returns, without fallback, a selection with
\* three courses of one area although a fourth candidate of that area is
\* left that would still fit under the target.
C21_Witness ==
    /\ pc = "optimized" /\ algorithm = "marginal"
    /\ MarginalFilled.totalCredits >= MinCredits
    /\ CountIn(selectedCourses, "AI") = 3
    /\ \E i \in 1..Len(scoredCourses) :
          /\ ~containsRecommendedCourse(selectedCourses, scoredCourses[i])
          /\ scoredCourses[i].Course.SubdomainID = "AI"
          /\ calculateTotalCredits(selectedCourses) + scoredCourses[i].Course.CreditHours
                 <= Min(maxCreditLoad, TargetCeiling)

\* The relaxed preset: ten courses of one area are selected and an eleventh
\* candidate of that area that would still fit is left out.
RelaxedCapReached ==
    /\ pc = "optimized" /\ algorithm \in {"creditCap", "priority"}
    /\ CountIn(selectedCourses, "AI") = 10
    /\ \E i \in 1..Len(scoredCourses) :
          /\ ~containsRecommendedCourse(selectedCourses, scoredCourses[i])
          /\ scoredCourses[i].Course.SubdomainID = "AI"
          /\ calculateTotalCredits(selectedCourses) + scoredCourses[i].Course.CreditHours
                 <= Min(maxCreditLoad, TargetCeiling) - FullEnoughSlack

-----------------------------------------------------------------------------
(* The fill phase of the marginal-value snapshot, accepted candidate by    *)
(* accepted candidate (checked under SpecOptimizer).                       *)

\* The running state before the first candidate (part_002:12-24).
FillStart ==
    [selectedCourses |-> <<>>, totalCredits |-> 0,
     coveredCompetencies |-> getMapKeys(profile.Competencies),
     distributionCoverage |-> EarnedCredits(profile),
     subdomainCount |-> EmptyMap]

RECURSIVE AcceptAll(_, _)
AcceptAll(st, courses) ==
    IF courses = <<>> THEN st
    ELSE AcceptAll(Accept(st, Head(courses)), Tail(courses))

\* The running state at the moment the k-th accepted candidate was examined.
FillStateBefore(k) == AcceptAll(FillStart, SubSeq(MarginalFilled.selectedCourses, 1, k - 1))

FillTarget == Min(maxCreditLoad, TargetCeiling)

MarginalDone == Optimized /\ algorithm = "marginal"

\* C22: in the greedy fill phase a candidate is accepted only if its marginal
\* value is >= 0.5*(1 - creditsSoFar/targetCreditLoad), computed from the
\* running total at that moment, and adding it does not push the running total
\* above targetCreditLoad; nothing is accepted once the running total has
\* reached the target.
C22_FillAcceptance ==
    MarginalDone =>
        \A k \in 1..Len(MarginalFilled.selectedCourses) :
            LET courseRec == MarginalFilled.selectedCourses[k]
                st        == FillStateBefore(k)
            IN  /\ Geq(MarginalValue(courseRec, st, requirements),
                       AcceptanceThreshold(st.totalCredits, FillTarget))
                /\ st.totalCredits + courseRec.Course.CreditHours <= FillTarget
                /\ st.totalCredits < FillTarget

\* What the fill phase does guarantee: the threshold test, the stop at the
\* target, and a running total within the target or, below the 36-credit
\* floor, within maxCreditLoad.
FillAcceptanceUpToCeiling ==
    MarginalDone =>
        \A k \in 1..Len(MarginalFilled.selectedCourses) :
            LET courseRec == MarginalFilled.selectedCourses[k]
                st        == FillStateBefore(k)
                total     == st.totalCredits + courseRec.Course.CreditHours
            IN  /\ Geq(MarginalValue(courseRec, st, requirements),
                       AcceptanceThreshold(st.totalCredits, FillTarget))
                /\ \/ total <= FillTarget
                   \/ st.totalCredits < MinCredits /\ total <= maxCreditLoad
                /\ st.totalCredits < FillTarget

-----------------------------------------------------------------------------
(* The credit floor (checked under SpecOptimizer and SpecFill).            *)

SelectedTotal == calculateTotalCredits(selectedCourses)

\* Every candidate left unselected would take the total above maxCreditLoad.
NothingFitsUnderCeiling ==
    \A i \in 1..Len(scoredCourses) :
        ~containsRecommendedCourse(selectedCourses, scoredCourses[i])
            => SelectedTotal + scoredCourses[i].Course.CreditHours > maxCreditLoad

\* The courses added after the fill phase of the marginal-value snapshot.
FallbackAdditions ==
    SubSeq(selectedCourses, Len(MarginalFilled.selectedCourses) + 1, Len(selectedCourses))

FallbackInRankOrder ==
    /\ Len(MarginalFilled.selectedCourses) <= Len(selectedCourses)
    /\ SubSeq(selectedCourses, 1, Len(MarginalFilled.selectedCourses))
           = MarginalFilled.selectedCourses
    /\ \A i, j \in 1..Len(FallbackAdditions) :
          i < j => \E m, n \in 1..Len(scoredCourses) :
                       /\ m < n
                       /\ scoredCourses[m] = FallbackAdditions[i]
                       /\ scoredCourses[n] = FallbackAdditions[j]

\* C23: when the optimizer returns, either the selected total is at least the
\* 36-credit floor, or every candidate left unselected would push the total
\* above the hard credit ceiling (maxCreditLoad); fallback additions are made
\* in rank order.
C23_CreditFloor ==
    Optimized =>
        /\ SelectedTotal >= MinCredits \/ NothingFitsUnderCeiling
        /\ algorithm = "marginal" => FallbackInRankOrder

\* The same for the marginal-value snapshot alone, the one with a fallback.
MarginalCreditFloor ==
    MarginalDone =>
        /\ SelectedTotal >= MinCredits \/ NothingFitsUnderCeiling
        /\ FallbackInRankOrder

\* The fallback goes past the diversity cap: a fourth course of one area.
FallbackIgnoresCap ==
    /\ MarginalDone
    /\ FallbackAdditions # <<>>
    /\ CountIn(selectedCourses, "AI") > MaxPerSubdomain
    /\ SelectedTotal >= MinCredits

-----------------------------------------------------------------------------
(* The totals of a returned RecommendationSet (checked under SpecHandler). *)

\* Summed credit hours of the courses of one subdomain.
RECURSIVE CreditsIn(_, _)
CreditsIn(courses, subdomain) ==
    IF courses = <<>> THEN 0
    ELSE (IF Head(courses).Course.SubdomainID = subdomain
              THEN Head(courses).Course.CreditHours ELSE 0)
         + CreditsIn(Tail(courses), subdomain)

RECURSIVE AllCredits(_)
AllCredits(courses) ==
    IF courses = <<>> THEN 0
    ELSE Head(courses).Course.CreditHours + AllCredits(Tail(courses))

RECURSIVE SumValues(_)
SumValues(m) ==
    IF DOMAIN m = {} THEN 0
    ELSE LET k == CHOOSE x \in DOMAIN m : TRUE
         IN  m[k] + SumValues([x \in DOMAIN m \ {k} |-> m[x]])

Returned == pc = "responded" /\ ~response.result.isNil

TotalsAgree(result) ==
    /\ result.TotalCredits = AllCredits(result.RecommendedSet)
    /\ DOMAIN result.DistributionCoverage = SubdomainsOf(result.RecommendedSet)
    /\ \A s \in SubdomainsOf(result.RecommendedSet) :
          result.DistributionCoverage[s] = CreditsIn(result.RecommendedSet, s)
    /\ SumValues(result.DistributionCoverage) = result.TotalCredits

\* C24: in every returned RecommendationSet, TotalCredits equals the sum of
\* the credit hours of the courses in RecommendedSet, DistributionCoverage
\* maps each subdomain to the summed credit hours of the selected courses of
\* that subdomain, and the coverage values add up to TotalCredits.
C24_ResultTotals == Returned => TotalsAgree(response.result)

\* The same for the sets GenerateRecommendations builds (main.go, part_004).
ServiceResultTotals ==
    (Returned /\ handler \in {"main", "part004"}) => TotalsAgree(response.result)

\* A set returned by GenerateRecommendations with courses of two subdomains.
ServiceResultTwoAreas ==
    /\ Returned /\ handler \in {"main", "part004"}
    /\ Cardinality(SubdomainsOf(response.result.RecommendedSet)) = 2
    /\ response.result.TotalCredits > 0

-----------------------------------------------------------------------------
(* SpecPart003: handleRecommendations of unnamed/part_003, from the        *)
(* request to the response, with the client of A1CEClient.go.  The course  *)
(* codes are "AI-1", "AI-2" and "SE-1"; strings.Split(code, "-")[0] and    *)
(* strings.HasPrefix are tabulated for them.                               *)

\* strings.Split(code, "-")[0]
CodePrefix(code) ==
    IF code \in {"AI-1", "AI-2"} THEN "AI"
    ELSE IF code = "SE-1" THEN "SE"
    ELSE code

\* strings.HasPrefix(code, prefix)
HasCodePrefix(code, prefix) ==
    \/ code = prefix
    \/ prefix = ""
    \/ prefix = "AI" /\ code \in {"AI-1", "AI-2"}
    \/ prefix = "SE" /\ code = "SE-1"

\* Step 2, the loop body: the code is added to CompletedCourses unless it is
\* there already; a grade above 1.0 makes the course a successful one.
MarkCompleted(acc, code, grade) ==
    [profile |->
         IF contains(acc.profile.CompletedCourses, code) THEN acc.profile
         ELSE [acc.profile EXCEPT !.CompletedCourses = Append(@, code)],
     successful |-> IF grade > 1 THEN Append(acc.successful, code) ELSE acc.successful]

\* PreviousSemester = "ALL": range over profile.Competencies, in the order
\* the map yields its keys.
RECURSIVE MarkAllCompetencies(_, _, _)
MarkAllCompetencies(acc, competencies, order) ==
    IF order = <<>> THEN acc
    ELSE MarkAllCompetencies(
             MarkCompleted(acc, Head(order), competencies[Head(order)]),
             competencies, Tail(order))

\* Another PreviousSemester: range over the cards of that semester.
RECURSIVE MarkSemesterCards(_, _)
MarkSemesterCards(acc, cs) ==
    IF cs = <<>> THEN acc
    ELSE MarkSemesterCards(MarkCompleted(acc, Head(cs).CourseCode, Head(cs).Grade),
                           Tail(cs))

\* Step 2 as a whole; a failed semester request changes nothing.
IdentifySuccessfulCourses(prof, previousSemester, fetch, order) ==
    LET start == [profile |-> prof, successful |-> <<>>]
    IN  IF previousSemester = "ALL"
            THEN MarkAllCompetencies(start, prof.Competencies, order)
        ELSE IF previousSemester # "" /\ ~fetch.err
            THEN MarkSemesterCards(start, fetch.cards)
        ELSE start

\* Step 4: 5.0 per (successful course, catalog course with its prefix) pair,
\* then normalised when the total is positive.
InterestHits(successful, courses, subdomain) ==
    Cardinality({<<i, j>> \in (1..Len(successful)) \X (1..Len(courses)) :
                    /\ HasCodePrefix(courses[j].CourseCode, CodePrefix(successful[i]))
                    /\ courses[j].SubdomainID = subdomain})

CalculateInterests(successful, courses) ==
    LET subdomains == {courses[j].SubdomainID : j \in 1..Len(courses)}
        hit        == {s \in subdomains : InterestHits(successful, courses, s) > 0}
        totalWeight == SumValues([s \in hit |-> 5 * InterestHits(successful, courses, s)])
    IN  [s \in hit |->
            IF totalWeight > 0
                THEN Div(R(5 * InterestHits(successful, courses, s)), R(totalWeight))
                ELSE R(5 * InterestHits(successful, courses, s))]

\* Step 5, the requirements.
Part003Requirements(prof, required) ==
    [RequiredCompetencies |-> prof.RequiredCompetencies,
     DistributionRequirements |->
         [k \in DOMAIN prof.DistributionCredits |-> prof.DistributionCredits[k].Required],
     TotalCreditsRequired |-> required]

isCourseCompleted(course, prof) ==
    \E i \in 1..Len(prof.CompletedCourses) :
        LET completedCode == prof.CompletedCourses[i]
        IN  \/ completedCode = course.CourseID
            \/ course.CourseCode # "" /\ completedCode = course.CourseCode
            \/ completedCode = course.CourseName

\* Step 5, the loop over the catalog.
Part003Scored(courses, prof, reqs) ==
    LET kept == SelectSeq(courses, LAMBDA c :
                    CheckPrerequisites(c, prof) /\ ~isCourseCompleted(c, prof))
    IN  [i \in 1..Len(kept) |->
            [Course |-> kept[i],
             FitScore |-> ScoreCourse(kept[i], prof, reqs,
                                      Rat(1, 5), Rat(3, 5), Rat(1, 5)).FitScore]]

Part003Course(id, code, subdomain, credits, prerequisites) ==
    [CourseID |-> id, CourseCode |-> code, CourseName |-> "", CreditHours |-> credits,
     SubdomainID |-> subdomain, RequiredCompetencies |-> EmptyMap,
     TeachesCompetencies |-> <<>>, Prerequisites |-> prerequisites]

Part003Card(code, grade, status) ==
    [CourseCode |-> code, Grade |-> grade, Status |-> status, TemplateID |-> ""]

Part003Cards ==
    {<<>>,
     <<Part003Card("AI-1", 3, "Completed")>>,
     <<Part003Card("AI-1", 3, "Completed"), Part003Card("SE-1", 0, "Enrolled")>>,
     <<Part003Card("SE-1", 2, "Enrolled")>>}

Part003Subdomains ==
    {[k \in {"AI", "SE"} |->
         IF k = "AI"
             THEN [err |-> FALSE,
                   courses |-> <<Part003Course("1", "AI-1", "AI", 30, <<>>),
                                 Part003Course("2", "AI-2", "AI", 30, <<"SE-1">>)>>]
             ELSE [err |-> seErr,
                   courses |-> <<Part003Course("3", "SE-1", "SE", 30, <<>>)>>]] :
        seErr \in BOOLEAN}

Part003Upstreams ==
    {[identityErr |-> ie, cardsErr |-> FALSE, graduationErr |-> FALSE,
      subdomainsErr |-> se, cards |-> cs, required |-> <<>>, earned |-> 30,
      subdomains |-> subs, semesterFetch |-> fetch] :
        ie \in BOOLEAN, se \in BOOLEAN, cs \in Part003Cards, subs \in Part003Subdomains,
        fetch \in {[err |-> TRUE, cards |-> <<>>],
                   [err |-> FALSE, cards |-> <<Part003Card("AI-2", 2, "Enrolled")>>]}}

Part003Requests ==
    {[StudentID |-> "s1", Semester |-> "S2", MaxCreditLoad |-> load,
      PreviousSemester |-> previous] :
        load \in {0, 60, 70}, previous \in {"", "ALL", "S1"}}

InitPart003 ==
    /\ pc = "request"
    /\ request \in Part003Requests
    /\ upstream \in Part003Upstreams
    /\ profile = FreshProfile
    /\ requirements = OptimizerRequirements(<<>>)
    /\ response = NoResponse /\ stages = <<>>
    /\ scored = <<>>
    /\ catalog = <<>> /\ constraints = NoConstraints /\ idMap = EmptyMap
    /\ semesterCards = EmptyMap /\ semester = <<>> /\ candidates = <<>>
    /\ handler = "part003"
    /\ IdleOptimizer /\ IdlePrereq /\ IdleScoring /\ IdleAggregate /\ IdleOffline

part003Frame ==
    <<prereqVars, checkedCourse, constraints, idMap, semesterCards, semester, candidates,
      handler, scores, upstream, stages, aggregateVars, request, offlineVars>>

\* part_003:105-118: the overload check and step 1.
Part003FetchProfile ==
    /\ pc = "request"
    /\ LET got == GetStudentProfile(upstream)
       IN  IF request.MaxCreditLoad > 60
               THEN /\ response' = ErrorResponse("CREDIT_OVERLOAD")
                    /\ pc' = "responded"
                    /\ UNCHANGED profile
           ELSE IF got.err
               THEN /\ response' = ErrorResponse("A1CE_API_ERROR")
                    /\ pc' = "responded"
                    /\ UNCHANGED profile
           ELSE /\ profile' = got.profile
                /\ pc' = "haveProfile"
                /\ UNCHANGED response
    /\ UNCHANGED <<requirements, optimizerVars, catalog, scored, part003Frame>>

\* part_003:120-183: steps 2, 3 and 4.
Part003InferInterests ==
    /\ pc = "haveProfile"
    /\ \E order \in RangeOrders(profile.Competencies),
          subdomainOrder \in RangeOrders(upstream.subdomains) :
          LET marked == IdentifySuccessfulCourses(profile, request.PreviousSemester,
                                                  upstream.semesterFetch, order)
              got    == GetCourseCatalog(upstream, subdomainOrder)
          IN  IF got.err
                  THEN /\ profile' = marked.profile
                       /\ response' = ErrorResponse("A1CE_API_ERROR")
                       /\ pc' = "responded"
                       /\ UNCHANGED catalog
                  ELSE /\ catalog' = got.courses
                       /\ profile' =
                              [marked.profile EXCEPT !.InterestWeights =
                                   CalculateInterests(marked.successful, got.courses)]
                       /\ pc' = "inferred"
                       /\ UNCHANGED response
    /\ UNCHANGED <<requirements, optimizerVars, scored, part003Frame>>

\* part_003:185-231: step 5 and the sort.
Part003Score ==
    /\ pc = "inferred"
    /\ requirements' = Part003Requirements(profile, 120)
    /\ scored' = Part003Scored(catalog, profile, requirements')
    /\ scoredCourses' = ExchangeSort(scored')
    /\ pc' = "scoredAll"
    /\ UNCHANGED <<profile, maxCreditLoad, selectedCourses, algorithm, metrics,
                   catalog, response, part003Frame>>

\* part_003:233-254: the optimizer and the response.
Part003Respond ==
    /\ pc = "scoredAll"
    /\ RunInline(request.MaxCreditLoad)
    /\ pc' = "responded"
    /\ UNCHANGED <<profile, requirements, scoredCourses, catalog, scored, part003Frame>>

NextPart003 ==
    Part003FetchProfile \/ Part003InferInterests \/ Part003Score \/ Part003Respond

SpecPart003 == InitPart003 /\ [][NextPart003]_vars

\* The profile as the client returned it.
FetchedProfile == GetStudentProfile(upstream).profile

SameDomainData(prof, fetched) ==
    /\ prof.CompletedCourses = fetched.CompletedCourses
    /\ prof.Competencies = fetched.Competencies
    /\ prof.DistributionCredits = fetched.DistributionCredits
    /\ prof.RequiredCompetencies = fetched.RequiredCompetencies
    /\ prof.TotalCredits = fetched.TotalCredits

\* C25: during one recommendation request the profile's domain data is
\* changed only by interest inference writing InterestWeights before scoring:
\* CompletedCourses, Competencies, DistributionCredits, RequiredCompetencies
\* and TotalCredits are the same after filtering, scoring, optimization and
\* evaluation as when the profile was fetched.
C25_ProfileFrame ==
    (pc \in {"scoredAll", "responded"} /\ ~GetStudentProfile(upstream).err
        /\ request.MaxCreditLoad <= 60)
        => SameDomainData(profile, FetchedProfile)

\* The same for GenerateRecommendations (checked under SpecService).
ServiceProfileFrame ==
    pc \in {"haveProfile", "haveCatalog", "inferred", "filtered", "scoredAll",
            "selected", "measured"}
        => SameDomainData(profile, FetchedProfile)

\* A course whose prerequisite the student is only enrolled in is recommended
\* after the handler has added that prerequisite to CompletedCourses.
EnrolledCountsAsCompleted ==
    /\ pc = "responded" /\ ~response.result.isNil
    /\ ~contains(FetchedProfile.CompletedCourses, "SE-1")
    /\ contains(profile.CompletedCourses, "SE-1")
    /\ \E i \in 1..Len(selectedCourses) : selectedCourses[i].Course.CourseCode = "AI-2"

-----------------------------------------------------------------------------
(* Skill coverage against competency progress (checked under               *)
(* SpecOptimizer).                                                         *)

\* C26: for every selection, skill coverage and the competency-progress
\* component of program-progress fit are the same number, also when two
\* selected courses teach the same missing competency or the required list
\* repeats a code.
C26_CoverageIsProgress ==
    pc = "evaluated" =>
        metrics.SkillCoveragePercentage
            = CompetencyProgress(selectedCourses, profile, requirements)

\* No missing required competency is taught by two selected courses.
TaughtOnce ==
    \A i, j \in 1..Len(selectedCourses) :
        i # j => Range(selectedCourses[i].Course.TeachesCompetencies)
                     \cap Range(selectedCourses[j].Course.TeachesCompetencies)
                     \cap Range(MissingRequired(profile, requirements)) = {}

\* The two numbers agree when every missing competency is taught at most once.
CoverageIsProgressWhenTaughtOnce ==
    (pc = "evaluated" /\ TaughtOnce) =>
        metrics.SkillCoveragePercentage
            = CompetencyProgress(selectedCourses, profile, requirements)

-----------------------------------------------------------------------------
(* Prerequisite compliance of the sets GenerateRecommendations returns     *)
(* (checked under SpecService).                                            *)

Evaluated == pc = "measured" \/ (pc = "returned" /\ ~response.result.isNil)

\* C27: for every recommendation set produced by the full pipeline (filter,
\* score, optimize, then evaluate against the same profile) the reported
\* prerequisite compliance is exactly 1.0: every selected course passes
\* CheckPrerequisites against the profile the set is evaluated with.
C27_FullCompliance ==
    /\ Evaluated =>
          /\ metrics.PrerequisiteCompliance = R(1)
          /\ \A i \in 1..Len(selectedCourses) :
                CheckPrerequisites(selectedCourses[i].Course, profile)
    /\ (pc = "returned" /\ ~response.result.isNil) =>
          response.result.Metrics.PrerequisiteCompliance = R(1)

\* A returned set with a course that has a prerequisite, which the student
\* has completed.
C27_Witness ==
    /\ pc = "returned" /\ ~response.result.isNil
    /\ \E i \in 1..Len(response.result.RecommendedSet) :
          LET course == response.result.RecommendedSet[i].Course
          IN  /\ course.Prerequisites # <<>>
              /\ \A k \in 1..Len(course.Prerequisites) :
                    contains(profile.CompletedCourses, course.Prerequisites[k])
    /\ response.result.Metrics.PrerequisiteCompliance = R(1)

\* A catalog course left out of a returned set by the prerequisite filter.
PrerequisiteFilteredOut ==
    /\ pc = "returned" /\ ~response.result.isNil
    /\ \E i \in 1..Len(catalog) :
          /\ ~CheckPrerequisites(catalog[i], profile)
          /\ \A k \in 1..Len(candidates) : candidates[k].CourseID # catalog[i].CourseID

-----------------------------------------------------------------------------
(* Repeated course ids (checked under SpecFill).                           *)

DistinctIds(courses) ==
    \A i, j \in 1..Len(courses) :
        i # j => courses[i].Course.CourseID # courses[j].Course.CourseID

\* C28: for every ranked candidate list, including one in which the same
\* course id occurs more than once, the selection returned by
\* OptimizeCourseSet contains no two entries with the same course id.
C28_NoDuplicateIds == pc = "optimized" => DistinctIds(selectedCourses)

\* The priority-plus-fill snapshot, which tests containsRecommendedCourse in
\* both of its passes, returns distinct ids.
PriorityDistinctIds ==
    (pc = "optimized" /\ algorithm = "priority") => DistinctIds(selectedCourses)

\* The priority-plus-fill snapshot has passed over a repeated candidate that
\* would still fit.
RepeatedCandidateSkipped ==
    /\ pc = "optimized" /\ algorithm = "priority"
    /\ ~DistinctIds(scoredCourses)
    /\ Len(selectedCourses) < Len(scoredCourses)
    /\ \E i \in 1..Len(scoredCourses) :
          SelectedTotal + scoredCourses[i].Course.CreditHours < maxCreditLoad

-----------------------------------------------------------------------------
(* Maximality of the priority-plus-fill snapshot (checked under SpecFill). *)

PriorityDone == pc = "optimized" /\ algorithm = "priority"

Unselected == {i \in 1..Len(scoredCourses) :
                  ~containsRecommendedCourse(selectedCourses, scoredCourses[i])}

\* C29: when the priority-plus-fill optimizer returns, either the selected
\* total has reached the target credit load, or every unselected candidate
\* would push the total above the target if added or is of a subdomain at the
\* diversity cap: no candidate that still fits, a zero-credit one included,
\* is left out while the total is below the target.
C29_Maximal ==
    PriorityDone =>
        \/ SelectedTotal >= maxCreditLoad
        \/ \A i \in Unselected :
              \/ SelectedTotal + scoredCourses[i].Course.CreditHours > maxCreditLoad
              \/ CountIn(selectedCourses, scoredCourses[i].Course.SubdomainID)
                     >= RelaxedMaxPerSubdomain

\* The optimizer returns below the target with a zero-credit course selected
\* and with candidates left, each of which would exceed the target.
C29_Witness ==
    /\ PriorityDone
    /\ SelectedTotal < maxCreditLoad
    /\ Unselected # {}
    /\ \A i \in Unselected :
          SelectedTotal + scoredCourses[i].Course.CreditHours > maxCreditLoad
    /\ \E k \in 1..Len(selectedCourses) : selectedCourses[k].Course.CreditHours = 0

\* The optimizer returns below the target with a candidate left that would
\* fit but is of a subdomain at the cap.
LeftOutAtCap ==
    /\ PriorityDone
    /\ SelectedTotal < maxCreditLoad
    /\ \E i \in Unselected :
          /\ SelectedTotal + scoredCourses[i].Course.CreditHours <= maxCreditLoad
          /\ CountIn(selectedCourses, scoredCourses[i].Course.SubdomainID)
                 >= RelaxedMaxPerSubdomain

-----------------------------------------------------------------------------
(* Specification SpecRecommend: one iteration of the recommendation loop   *)
(* of EvaluateAllStudentsFromSQLite (part_000) for one student.  The       *)
(* record `offline` holds the tables loaded from the database (rows,       *)
(* competencyMeta, sim, prereqs) and the locals of the iteration.  Codes   *)
(* are compared as whole strings.                                          *)

MaxTrainRows == 2

TrainRow(code, grade, rating) ==
    [CompetencyCode |-> code, Grade |-> grade, OverallRating |-> rating]

TrainRowChoices == {TrainRow(code, grade, 5) : code \in {"A", "B"}, grade \in {2, 4}}

RECURSIVE TrainRowsOfLen(_)
TrainRowsOfLen(n) ==
    IF n = 0 THEN {<<>>}
    ELSE {Append(front, row) : front \in TrainRowsOfLen(n - 1), row \in TrainRowChoices}

\* A student of uniqueStudents has at least one row.
TrainLists == UNION {TrainRowsOfLen(n) : n \in 1..MaxTrainRows}

CompetencyMeta(required, credits) == [Required |-> required, Credits |-> credits]

\* competency_data: "E" has no row.
MetaChoices ==
    {[code \in {"A", "B", "C", "D"} |->
         CASE code = "A" -> CompetencyMeta(a, 30)
           [] code = "B" -> CompetencyMeta(1, 30)
           [] code = "C" -> CompetencyMeta(c, credits)
           [] code = "D" -> CompetencyMeta(0, 40)] :
        a \in {0, 1}, c \in {0, 1}, credits \in {30, 40}}

\* Rows of the similarity matrix: one with distinct scores, one with equal
\* scores, one for "B".
SimRow_Distinct ==
    [code \in {"A", "B", "C", "D", "E"} |->
        CASE code = "A" -> R(1)
          [] code = "B" -> Rat(9, 10)
          [] code = "C" -> Rat(4, 5)
          [] code = "D" -> Rat(7, 10)
          [] code = "E" -> Rat(3, 5)]

SimRow_Equal == [code \in {"B", "C", "D", "E"} |-> Rat(1, 2)]

SimRow_B == [code \in {"C", "E"} |-> Rat(9, 10)]

SimChoices ==
    {[key \in {"A"} |-> rowA] : rowA \in {SimRow_Distinct, SimRow_Equal}}
    \cup {[key \in {"A", "B"} |-> IF key = "A" THEN rowA ELSE SimRow_B] :
             rowA \in {SimRow_Distinct, SimRow_Equal}}

PrereqChoices ==
    { [code \in {} |-> <<>>],
      [code \in {"C"} |-> <<"A">>],
      [code \in {"C"} |-> <<"A", "B">>],
      [code \in {"C", "E"} |-> IF code = "C" THEN <<"A">> ELSE <<"D">>],
      [code \in {"D"} |-> <<"E">>] }

\* competencyMeta[c] and requiredMap[c]: the zero value for a missing key.
MetaOf(competencyMeta, code) ==
    IF code \in DOMAIN competencyMeta THEN competencyMeta[code]
    ELSE CompetencyMeta(0, 0)

\* score := (rr.Grade/4.0)*0.5 + (rr.OverallRating/5.0)*0.3 + float64(req)*0.2
TrainScore(rr, competencyMeta) ==
    Add(Add(Mul(Div(R(rr.Grade), R(4)), Rat(1, 2)),
            Mul(Div(R(rr.OverallRating), R(5)), Rat(3, 10))),
        Mul(R(MetaOf(competencyMeta, rr.CompetencyCode).Required), Rat(1, 5)))

\* topSet: the codes of the rows that score at least 0.8.
TopSet(rows, competencyMeta) ==
    {rows[i].CompetencyCode :
        i \in {k \in 1..Len(rows) : Geq(TrainScore(rows[k], competencyMeta), Rat(4, 5))}}

\* nearestNeighborsFromSim(sim, key, topN): the lists it can return.  The
\* row is ranged over in any order and sorted by sort.Slice, which may
\* leave equal scores in any order.
nearestNeighborsFromSim(sim, key, topN) ==
    IF key \notin DOMAIN sim THEN {<<>>}
    ELSE LET row == sim[key]
             others == DOMAIN row \ {key}
             n == Cardinality(others)
             sorted == {p \in [1..n -> others] :
                           /\ \A a, b \in 1..n : a # b => p[a] # p[b]
                           /\ \A k \in 1..(n - 1) : ~Gt(row[p[k + 1]], row[p[k]])}
         IN  {SubSeq(p, 1, Min(n, topN)) : p \in sorted}

\* Mutant of PrerequisitesHeld: no prerequisite is looked at.
PrerequisitesHeld_Unchecked(prereqs, comp, completedSet) == TRUE

\* The prerequisite test of the loop over recommendedSet.
PrerequisitesHeld(prereqs, comp, completedSet) ==
    comp \in DOMAIN prereqs =>
        \A k \in 1..Len(prereqs[comp]) : prereqs[comp][k] \in completedSet

\* finalCandidates, then filtered: the recommended codes, in the order the
\* range loop visits them, whose prerequisites are in topSet and that are
\* in no train row.
RECURSIVE FilterCandidates(_, _, _, _, _)
FilterCandidates(order, i, prereqs, topSet, completedAll) ==
    IF i > Len(order) THEN <<>>
    ELSE LET rest == FilterCandidates(order, i + 1, prereqs, topSet, completedAll)
         IN  IF /\ PrerequisitesHeld(prereqs, order[i], topSet)
                /\ order[i] \notin completedAll
             THEN <<order[i]>> \o rest
             ELSE rest

CandList(filtered, competencyMeta) ==
    [k \in 1..Len(filtered) |->
        [Code |-> filtered[k],
         Required |-> MetaOf(competencyMeta, filtered[k]).Required,
         Credits |-> MetaOf(competencyMeta, filtered[k]).Credits]]

\* The comparison given to sort.Slice: required first, then fewer credits.
CandLess(x, y) ==
    IF x.Required # y.Required THEN x.Required > y.Required
    ELSE x.Credits < y.Credits

SortedCandLists(candList) ==
    {[k \in 1..Len(candList) |-> candList[p[k]]] :
        p \in {q \in [1..Len(candList) -> 1..Len(candList)] :
                  /\ \A a, b \in 1..Len(candList) : a # b => q[a] # q[b]
                  /\ \A k \in 1..(Len(candList) - 1) :
                        ~CandLess(candList[q[k + 1]], candList[q[k]])}}

\* The selection loop: a row is taken when it keeps the total within 60
\* and its code is not in used.
RECURSIVE SelectWithin(_, _, _, _)
SelectWithin(candList, i, totalCredits, selected) ==
    IF i > Len(candList) THEN selected
    ELSE IF /\ totalCredits + candList[i].Credits <= 60
            /\ candList[i].Code \notin Range(selected)
         THEN SelectWithin(candList, i + 1, totalCredits + candList[i].Credits,
                           Append(selected, candList[i].Code))
         ELSE SelectWithin(candList, i + 1, totalCredits, selected)

InitRecommend ==
    /\ pc = "train"
    /\ \E rows \in TrainLists, competencyMeta \in MetaChoices,
          sim \in SimChoices, prereqs \in PrereqChoices :
          offline = [rows |-> rows, competencyMeta |-> competencyMeta, sim |-> sim,
                     prereqs |-> prereqs, topSet |-> {}, recommendedSet |-> {},
                     filtered |-> <<>>, selected |-> <<>>]
    /\ profile = OptimizerProfile
    /\ requirements = OptimizerRequirements(<<>>)
    /\ scored = <<>>
    /\ IdleOptimizer /\ IdlePrereq /\ IdleFilter /\ IdleScoring /\ IdleService
    /\ IdleAggregate /\ IdleHandler

recommendFrame ==
    <<profile, requirements, optimizerVars, prereqVars, filterVars,
      checkedCourse, scores, scored, serviceVars, aggregateVars, handlerVars>>

\* The rows are scored and topSet is built; a student with an empty topSet
\* gets the empty list.
ScoreTrainRows ==
    /\ pc = "train"
    /\ LET topSet == TopSet(offline.rows, offline.competencyMeta)
       IN  /\ offline' = [offline EXCEPT !.topSet = topSet]
           /\ pc' = IF topSet = {} THEN "recommended" ELSE "top"
    /\ UNCHANGED recommendFrame

\* The neighbours of the top competencies are collected and filtered by
\* prerequisites and by the train rows.
CollectCandidates ==
    /\ pc = "top"
    /\ \E neighbors \in [offline.topSet -> UNION {nearestNeighborsFromSim(offline.sim, t, 3) :
                                                    t \in offline.topSet}] :
          /\ \A t \in offline.topSet :
                neighbors[t] \in nearestNeighborsFromSim(offline.sim, t, 3)
          /\ LET recommendedSet == UNION {Range(neighbors[t]) : t \in offline.topSet}
                 completedAll == {offline.rows[i].CompetencyCode :
                                     i \in 1..Len(offline.rows)}
             IN  \E order \in [1..Cardinality(recommendedSet) -> recommendedSet] :
                    /\ \A a, b \in DOMAIN order : a # b => order[a] # order[b]
                    /\ offline' = [offline EXCEPT
                                      !.recommendedSet = recommendedSet,
                                      !.filtered = FilterCandidates(order, 1, offline.prereqs,
                                                                    offline.topSet, completedAll)]
    /\ pc' = "filtered"
    /\ UNCHANGED recommendFrame

\* The candidates are sorted and selected within the credit limit.
SelectRecommendations ==
    /\ pc = "filtered"
    /\ \E candList \in SortedCandLists(CandList(offline.filtered, offline.competencyMeta)) :
          offline' = [offline EXCEPT !.selected = SelectWithin(candList, 1, 0, <<>>)]
    /\ pc' = "recommended"
    /\ UNCHANGED recommendFrame

NextRecommend == ScoreTrainRows \/ CollectCandidates \/ SelectRecommendations

SpecRecommend == InitRecommend /\ [][NextRecommend]_vars

-----------------------------------------------------------------------------
(* Claims checked under SpecRecommend.                                     *)

RECURSIVE CreditsOfCodes(_, _)
CreditsOfCodes(codes, competencyMeta) ==
    IF codes = <<>> THEN 0
    ELSE MetaOf(competencyMeta, Head(codes)).Credits
         + CreditsOfCodes(Tail(codes), competencyMeta)

\* The student's top-scoring set, from the train rows.
TopScoring ==
    {offline.rows[i].CompetencyCode :
        i \in {k \in 1..Len(offline.rows) :
                  Geq(TrainScore(offline.rows[k], offline.competencyMeta), Rat(4, 5))}}

TrainCodes == {offline.rows[i].CompetencyCode : i \in 1..Len(offline.rows)}

\* C30: in the offline pipeline, the recommended competency list of a
\* student totals at most 60 credits, contains no code twice, contains no
\* competency that appears in the student's training records, and contains
\* only competencies all of whose listed prerequisites are in the student's
\* top-scoring (score >= 0.8) set.
C30_RecommendedList ==
    pc = "recommended" =>
        LET rec == offline.selected
        IN  /\ CreditsOfCodes(rec, offline.competencyMeta) <= 60
            /\ \A i, j \in 1..Len(rec) : i # j => rec[i] # rec[j]
            /\ \A i \in 1..Len(rec) : rec[i] \notin TrainCodes
            /\ \A i \in 1..Len(rec) :
                  rec[i] \in DOMAIN offline.prereqs =>
                      \A k \in 1..Len(offline.prereqs[rec[i]]) :
                          offline.prereqs[rec[i]][k] \in TopScoring

\* A list is recommended while one neighbour is in the training records,
\* one lacks a prerequisite in the top-scoring set, and one that passed
\* both filters is left out by the credit limit.
C30_Witness ==
    /\ pc = "recommended"
    /\ offline.selected # <<>>
    /\ offline.recommendedSet \cap TrainCodes # {}
    /\ \E comp \in offline.recommendedSet \ TrainCodes :
          ~PrerequisitesHeld(offline.prereqs, comp, TopScoring)
    /\ \E k \in 1..Len(offline.filtered) :
          offline.filtered[k] \notin Range(offline.selected)

\* A student with no top-scoring row gets the empty list.
NoTopCompetencies ==
    pc = "recommended" /\ TopScoring = {} /\ offline.selected = <<>>

=============================================================================
